---- MODULE Spec2Model ----
(***************************************************************************)
(* A model of the cloud-build orchestration engine (class CB of            *)
(* cloud_build/cloud_build.py): the run lock, the build matrix, the cache  *)
(* of built tarballs, the publish directories and the failure policies.    *)
(*                                                                         *)
(* Strings that the code takes apart (branch names, targets, the remote    *)
(* template) are sequences of string pieces; Join makes the flat string.   *)
(* Directory paths are sequences of path segments.                         *)
(***************************************************************************)
EXTENDS Integers, Sequences, FiniteSets, TLC

VARIABLES
    cfg,            \* the configuration document parsed by parse_config: its index in Configs
    now,            \* the wall clock (time.time())
    out_dir,        \* data_dir/out: tarball name -> [mtime, by]
    images_fs,      \* the publish directories: path -> [by]
    fragment,       \* conf.d/cloud-build.mk: 0 when absent, else the writing instance
                    \* (-1: a process that is gone)
    fragment_rules, \* conf.d/cloud-build.mk: its rules, in the order of the file
    flock_holder,   \* the instance whose open lock file holds the flock, 0 when free
    life,           \* per CB object: "unborn", "live" or "dead" (after __del__)
    initialized,    \* CB.initialized
    lock_file,      \* CB.lock_file: "none", "open" or "closed"
    no_build,       \* CB.no_build
    build_errors,   \* CB._build_errors: sequence of <<target, arch>>
    pc,             \* where the object's create_images call stands: "idle" or "loop"
    idx,            \* position of create_images in the matrix
    no_tests,       \* argument of the running create_images call
    ustate,         \* per unit of the running or last call: "pending", "skipped"
                    \* (cache hit), "succeeded" or "failed" (the builder was invoked)
    tested,         \* per unit of the running or last call: "no", "passed", "failed"
                    \* or "undefined" (the test raised on its method)
    lastBuild,      \* the last builder invocation of the running or last call
    last,           \* how the object's last call ended
    runs,           \* number of create_images calls begun so far
    items_constraints,  \* the constraint record of the package or service "vim"
    items_result,   \* the last call of packages, enabled_services or disabled_services
    remote_fs,      \* the files at the remotes: <<remote, name...>> -> [by]
    rsync_log,      \* the rsync commands of the last sync call, each with its exit
                    \* status: [src, remote, delete, rc]
    sign_log,       \* the commands of the last sign call, each with its exit status:
                    \* [dir, cmd, key, rc]
    after_log       \* the after-sync commands of the last sync call, each with its
                    \* exit status: [argv, rc]

vars == <<cfg, now, out_dir, images_fs, fragment, fragment_rules, flock_holder, life, initialized,
          lock_file, no_build, build_errors, pc, idx, no_tests, ustate, tested,
          lastBuild, last, runs, items_constraints, items_result, remote_fs, rsync_log,
          sign_log, after_log>>

resolverVars == <<items_constraints, items_result>>

syncVars == <<remote_fs, rsync_log, sign_log, after_log>>

\* ---------------------------------------------------------------- bounds
NumInst == 2
MaxTime == 2
MaxRuns == 2

Instances == 1..NumInst

\* ---------------------------------------------------------------- strings
RECURSIVE Join(_)
Join(s) == IF s = <<>> THEN "" ELSE Head(s) \o Join(Tail(s))

RECURSIVE Flatten(_)
Flatten(ss) == IF ss = <<>> THEN <<>> ELSE Head(ss) \o Flatten(Tail(ss))

Range(s) == {s[n] : n \in DOMAIN s}

\* dict.get(key, default)
Get(d, key, default) == IF key \in DOMAIN d THEN d[key] ELSE default

UpperCase == <<"A","B","C","D","E","F","G","H","I","J","K","L","M",
               "N","O","P","Q","R","S","T","U","V","W","X","Y","Z">>
LowerCase == <<"a","b","c","d","e","f","g","h","i","j","k","l","m",
               "n","o","p","q","r","s","t","u","v","w","x","y","z">>

\* str.lower() on one character
lower_char(c) ==
    IF \E n \in DOMAIN UpperCase : UpperCase[n] = c
    THEN LowerCase[CHOOSE n \in DOMAIN UpperCase : UpperCase[n] = c]
    ELSE c

\* branch.lower()
lower(s) == [n \in DOMAIN s |-> lower_char(s[n])]

\* re.sub(r'\.', '_', branch)
escape_branch(branch) ==
    [n \in DOMAIN branch |-> IF branch[n] = "." THEN "_" ELSE branch[n]]

\* re.sub(r'.*/', '', s): what follows the last "/"
RECURSIVE strip_dirs(_)
strip_dirs(s) ==
    IF \E n \in DOMAIN s : s[n] = "/"
    THEN strip_dirs(SubSeq(s, (CHOOSE n \in DOMAIN s : s[n] = "/" /\
                                   \A m \in DOMAIN s : s[m] = "/" => m <= n) + 1, Len(s)))
    ELSE s

\* ---------------------------------------------------------------- configuration
X86 == "x86_64"
ARM == "aarch64"

BranchP9 == [name |-> <<"p", "9">>, arches |-> <<X86, ARM>>]
BranchSis == [name |-> <<"S", "i", "s">>, arches |-> <<X86>>]

NoRename == [regex |-> "", prog |-> "", to |-> ""]

ImageDocker ==
    [name |-> "rootfs", target |-> <<"ve", "/", "docker">>, kinds |-> <<"tar">>,
     exclude_arches |-> {}, exclude_branches |-> {}, tests |-> <<"docker">>,
     rename |-> NoRename]

RemoteByBranch == <<"/", "d", "/", "{branch}">>

\* rebuild_after, in days: the default of parse_config
RebuildAfter == 1

BaseConfig ==
    [try_build_all |-> FALSE, rebuild_after |-> [days |-> RebuildAfter],
     remote |-> RemoteByBranch,
     branches |-> <<BranchP9, BranchSis>>, images |-> <<ImageDocker>>]

TryAllConfig == [BaseConfig EXCEPT !.try_build_all = TRUE]

\* One branch with two arches: a matrix of two units
SmallConfig == [BaseConfig EXCEPT !.branches = <<BranchP9>>]

\* Two images with exclusions and two kinds: a matrix of six units
ImageDockerNoArm == [ImageDocker EXCEPT !.exclude_arches = {ARM}]

ImageCloud ==
    [name |-> "cloud", target |-> <<"vm", "/", "cloud">>, kinds |-> <<"qcow2", "img">>,
     exclude_arches |-> {}, exclude_branches |-> {<<"S", "i", "s">>}, tests |-> <<>>,
     rename |-> NoRename, packages |-> <<"cloud-init">>]

MatrixConfig == [BaseConfig EXCEPT !.images = <<ImageDockerNoArm, ImageCloud>>]

\* kinds is a YAML list: it may name a kind twice
ImageDupKinds == [ImageDocker EXCEPT !.kinds = <<"tar", "tar">>]

DupKindsConfig ==
    [BaseConfig EXCEPT !.branches = <<BranchSis>>, !.images = <<ImageDupKinds>>]

\* The only image is excluded from the only branch: an empty matrix
ImageNowhere == [ImageDocker EXCEPT !.exclude_branches = {<<"S", "i", "s">>}]

EmptyConfig ==
    [BaseConfig EXCEPT !.branches = <<BranchSis>>, !.images = <<ImageNowhere>>]

\* The four shapes of the remote template, with no_delete absent, true and false
RemotePlain == <<"/", "d">>

RemoteByArch == <<"/", "d", "/", "{arch}">>

RemoteBoth == <<"/", "d", "/", "{branch}", "/", "{arch}">>

WithNoDelete(c, value) == [k \in DOMAIN c \cup {"no_delete"} |->
                              IF k = "no_delete" THEN value ELSE c[k]]

PlainConfig == [BaseConfig EXCEPT !.remote = RemotePlain]

PlainDeleteConfig == WithNoDelete(PlainConfig, FALSE)

ByArchConfig == [BaseConfig EXCEPT !.remote = RemoteByArch]

ByArchDeleteConfig == WithNoDelete(ByArchConfig, FALSE)

ByBranchKeepConfig == WithNoDelete(BaseConfig, TRUE)

ByBranchDeleteConfig == WithNoDelete(BaseConfig, FALSE)

BothConfig == [BaseConfig EXCEPT !.remote = RemoteBoth]

BothDeleteConfig == WithNoDelete(BothConfig, FALSE)

PublishConfigs ==
    {PlainConfig, PlainDeleteConfig, ByArchConfig, ByArchDeleteConfig, BaseConfig,
     ByBranchKeepConfig, ByBranchDeleteConfig, BothConfig, BothDeleteConfig}

\* Images with the optional size, written as the characters of the YAML scalar
WithSize(image, size) ==
    [k \in DOMAIN image \cup {"size"} |-> IF k = "size" THEN size ELSE image[k]]

\* 1.5M
ImageDockerSized == WithSize(ImageDocker, <<"1", ".", "5", "M">>)

\* 10x: no number with an optional k, m or g
ImageCloudBadSize == WithSize(ImageCloud, <<"1", "0", "x">>)

\* 1x5: the pattern accepts any character where the decimal point is expected
ImageCloudBadNumber == WithSize(ImageCloud, <<"1", "x", "5">>)

SizedConfig == [BaseConfig EXCEPT !.images = <<ImageDockerSized>>]

\* The image with the malformed size comes second
BadSizeConfig == [BaseConfig EXCEPT !.images = <<ImageDocker, ImageCloudBadSize>>]

BadNumberConfig == [BaseConfig EXCEPT !.images = <<ImageDocker, ImageCloudBadNumber>>]

\* Images with each kind of rename rule, and with rules that have keys of two kinds
RenamedImage(name, rule) ==
    [ImageDocker EXCEPT !.name = name, !.target = <<"ve", "/", name>>, !.rename = rule]

ImagesRenamed ==
    <<RenamedImage("plain", NoRename),
      RenamedImage("byregex", [regex |-> "alt", prog |-> "", to |-> "ALT"]),
      RenamedImage("byprog", [regex |-> "", prog |-> "renamer.py", to |-> ""]),
      RenamedImage("byecho", [regex |-> "", prog |-> "prefix.sh", to |-> ""]),
      RenamedImage("byto", [regex |-> "", prog |-> "", to |-> "docker.tar.xz"]),
      RenamedImage("regexprog", [regex |-> "-", prog |-> "renamer.py", to |-> "_"]),
      RenamedImage("progto", [regex |-> "", prog |-> "prefix.sh", to |-> "other.tar"])>>

RenameConfig == [BaseConfig EXCEPT !.branches = <<BranchSis>>, !.images = ImagesRenamed]

\* Test descriptors: a method that image_tests.test does not know, and a program
ImageUnknownTest == [ImageDocker EXCEPT !.tests = <<"qemu">>]

ImageProgTest == [ImageDocker EXCEPT !.tests = <<"prog(check.sh)", "docker">>]

UnknownTestConfig == [BaseConfig EXCEPT !.images = <<ImageUnknownTest>>]

ProgTestConfig == [BaseConfig EXCEPT !.images = <<ImageProgTest>>]

\* The unknown method on an image that is built for aarch64 only
UnknownTestArmConfig ==
    [BaseConfig EXCEPT !.images = <<[ImageUnknownTest EXCEPT !.exclude_arches = {X86}]>>]

\* Documents that lack a required key, alone and with the config_override that is
\* passed to CB together with the document
Without(c, keys) == [k \in DOMAIN c \ keys |-> c[k]]

WithOverride(c, override) ==
    [k \in DOMAIN c \cup {"config_override"} |->
        IF k = "config_override" THEN override ELSE c[k]]

NoRemoteConfig == Without(BaseConfig, {"remote"})

NoImagesConfig == Without(BaseConfig, {"images"})

NoBranchesConfig == Without(BaseConfig, {"branches"})

NoRequiredConfig == Without(BaseConfig, {"remote", "images", "branches"})

OverrideRemoteConfig == WithOverride(NoRemoteConfig, [remote |-> RemoteByArch])

OverrideImagesConfig == WithOverride(NoImagesConfig, [images |-> <<ImageDocker>>])

OverrideBranchesConfig == WithOverride(NoBranchesConfig, [branches |-> <<BranchSis>>])

\* The override wins over a key that the document has
OverrideAllConfig ==
    WithOverride(BaseConfig, [remote |-> RemotePlain, images |-> <<ImageDocker>>,
                              branches |-> <<BranchSis>>])

\* rebuild_after with a key that timedelta does not know
BadDurationConfig == [BaseConfig EXCEPT !.rebuild_after = [dayz |-> 1]]

\* Signing keys: in the document, in the override (as in the tests, the integer 0),
\* in both, and in neither (SmallConfig)
WithKey(c, scalar) == [k \in DOMAIN c \cup {"key"} |-> IF k = "key" THEN scalar ELSE c[k]]

KeyConfig == WithKey(SmallConfig, [str |-> "ABCD"])

OverrideKeyConfig == WithOverride(SmallConfig, [key |-> [int |-> 0]])

KeyBothConfig == WithOverride(WithKey(BaseConfig, [str |-> "ABCD"]), [key |-> [int |-> 255]])

SignConfigs == {SmallConfig, KeyConfig, OverrideKeyConfig, KeyBothConfig}

\* What goes into the build fragment: a branch with a dot in its name, a branding and
\* prerequisites; an image whose branding is the empty string, with a package named
\* twice and a package that the packages section names too; an image with
\* prerequisites and services, excluded from one of the branches
BranchDotted ==
    [name |-> <<"p", "9", ".", "1">>, arches |-> <<X86>>, branding |-> "alt-starterkit",
     prerequisites |-> <<"use/net", "use/repo">>]

WithKeys(record, more) ==
    [k \in DOMAIN record \cup DOMAIN more |-> IF k \in DOMAIN more THEN more[k] ELSE record[k]]

ImageUnbranded ==
    WithKeys(ImageDocker, [branding |-> "", packages |-> <<"gosu", "curl", "curl">>,
                           services_disabled |-> <<"sshd">>])

ImageServices ==
    WithKeys(ImageCloud, [kinds |-> <<"qcow2">>, prerequisites |-> <<"use/cloud-init">>,
                          services_enabled |-> <<"vim", "chronyd">>])

FragmentConfig ==
    [BaseConfig EXCEPT !.branches = <<BranchDotted, BranchSis>>,
                       !.images = <<ImageUnbranded, ImageServices>>]

\* Images with a branding of their own, with an empty one and with none, on a branch
\* with a branding and on a branch without
ImageBranded ==
    WithKeys(ImageDocker, [name |-> "server", target |-> <<"ve", "/", "server">>,
                           branding |-> "alt-server"])

ImageEmptyBranding ==
    WithKeys(ImageDocker, [name |-> "plain", target |-> <<"ve", "/", "plain">>,
                           branding |-> ""])

BrandingConfig ==
    [BaseConfig EXCEPT !.branches = <<BranchDotted, BranchSis>>,
                       !.images = <<ImageBranded, ImageEmptyBranding, ImageDocker>>]

\* Two images whose targets differ in the directory only
ImageVmDocker == [ImageDocker EXCEPT !.name = "vmrootfs", !.target = <<"vm", "/", "docker">>]

SameBasenameConfig ==
    [BaseConfig EXCEPT !.branches = <<BranchSis>>, !.images = <<ImageDocker, ImageVmDocker>>]

\* An image renamed to one fixed name, on a branch with two arches whose publish
\* directory does not depend on the arch
ImageRenamedTo ==
    [ImageDocker EXCEPT !.rename = [regex |-> "", prog |-> "", to |-> "docker.tar.xz"]]

RenameToConfig == [SmallConfig EXCEPT !.images = <<ImageRenamedTo>>]

\* Two branches whose names differ only where escape_branch substitutes
BranchUnderscored == [name |-> <<"p", "9", "_", "1">>, arches |-> <<X86>>]

CollidingConfig == [BaseConfig EXCEPT !.branches = <<BranchDotted, BranchUnderscored>>]

\* Commands to run after the sync, with a remote that names a host and with a local one
RemoteOnHost == <<"host", ":", "/", "d", "/", "{branch}">>

WithCommands(c, commands) ==
    [k \in DOMAIN c \cup {"after_sync_commands"} |->
        IF k = "after_sync_commands" THEN commands ELSE c[k]]

AfterSyncRemoteConfig ==
    WithCommands([BaseConfig EXCEPT !.remote = RemoteOnHost], <<"kick", "notify">>)

AfterSyncLocalConfig == WithCommands(BaseConfig, <<"kick", "notify">>)

AfterSyncConfigs == {AfterSyncRemoteConfig, AfterSyncLocalConfig, BaseConfig}

StartupConfigs ==
    {NoRemoteConfig, NoImagesConfig, NoBranchesConfig, NoRequiredConfig,
     OverrideRemoteConfig, OverrideImagesConfig, OverrideBranchesConfig,
     OverrideAllConfig, BadDurationConfig, SizedConfig, BadSizeConfig,
     BadNumberConfig}

\* What a CB is constructed from: the configuration document and, under
\* config_override, the override passed with it; cfg is an index into this list.
Configs ==
    <<BaseConfig, TryAllConfig, SmallConfig, MatrixConfig, DupKindsConfig, EmptyConfig,
      PlainConfig, PlainDeleteConfig, ByArchConfig, ByArchDeleteConfig,
      ByBranchKeepConfig, ByBranchDeleteConfig, BothConfig, BothDeleteConfig,
      NoRemoteConfig, NoImagesConfig, NoBranchesConfig, NoRequiredConfig,
      OverrideRemoteConfig, OverrideImagesConfig, OverrideBranchesConfig,
      OverrideAllConfig, BadDurationConfig, SizedConfig, BadSizeConfig,
      BadNumberConfig, UnknownTestConfig, ProgTestConfig,
      UnknownTestArmConfig, RenameConfig, KeyConfig, OverrideKeyConfig,
      KeyBothConfig, FragmentConfig, CollidingConfig, AfterSyncRemoteConfig,
      AfterSyncLocalConfig, BrandingConfig, SameBasenameConfig, RenameToConfig>>

\* ---------------------------------------------------------------- parse_config
\* The keyword arguments of datetime.timedelta
TimedeltaKeys ==
    {"days", "seconds", "microseconds", "milliseconds", "minutes", "hours", "weeks"}

NoError == ""

lazy_get_ignores_override(c, override, key) == key \in DOMAIN c

\* lazy_get_raises(key) finds the key, in the override or in the document
lazy_get_finds(c, override, key) == key \in DOMAIN override \cup DOMAIN c

\* The keys that lazy_get_raises is asked for, in this order
required_keys == <<"remote", "images", "branches">>

\* '{:X}'.format(n)
HexDigits == <<"0", "1", "2", "3", "4", "5", "6", "7", "8", "9", "A", "B", "C", "D", "E", "F">>

RECURSIVE hex(_)
hex(n) == IF n < 16 THEN HexDigits[n + 1] ELSE hex(n \div 16) \o HexDigits[(n % 16) + 1]

\* parse_config: an integer key is written in hexadecimal, a string key is kept; the
\* YAML scalar is [int |-> n] or [str |-> s]
format_key(scalar) == IF "int" \in DOMAIN scalar THEN hex(scalar.int) ELSE scalar.str

\* parse_config(config, override): the error it raises (NoError for none) and the
\* configuration the object works with; rebuild_after becomes a number of days.
\* The message of the rebuild_after error is written without the grave accents
\* that surround the key in the source.
parse_config(c) ==
    LET override == IF "config_override" \in DOMAIN c THEN c.config_override
                    ELSE [k \in {} |-> 0]
        rebuild_after ==
            IF "rebuild_after" \in DOMAIN override THEN override.rebuild_after
            ELSE IF "rebuild_after" \in DOMAIN c THEN c.rebuild_after
            ELSE [days |-> 1]
        bad_keys == DOMAIN rebuild_after \ TimedeltaKeys
        missing == {n \in DOMAIN required_keys :
                       ~lazy_get_finds(c, override, required_keys[n])}
        first_missing == required_keys[CHOOSE n \in missing : \A m \in missing : n <= m]
        keys == ((DOMAIN c \ {"config_override"})
                    \cup (DOMAIN override \cap (Range(required_keys) \cup {"key"})))
                    \cup {"rebuild_after"}
    IN  [error |->
            IF bad_keys # {}
            THEN "Invalid key " \o (CHOOSE k \in bad_keys : TRUE)
                     \o " passed to rebuild_after"
            ELSE IF missing # {}
            THEN "Required parameter '" \o first_missing \o "' does not set in config"
            ELSE NoError,
         config |->
            [k \in keys |->
                IF k = "rebuild_after"
                THEN IF bad_keys # {} THEN 0
                     ELSE Get(rebuild_after, "days", 0) + 7 * Get(rebuild_after, "weeks", 0)
                ELSE IF k = "key"
                THEN format_key(IF k \in DOMAIN override THEN override[k] ELSE c[k])
                ELSE IF k \in DOMAIN override THEN override[k]
                ELSE c[k]]]

\* ---------------------------------------------------------------- configuration access
\* CB.branches: the branch names in configuration order
branches(c) == [n \in DOMAIN c.branches |-> c.branches[n].name]

branch_record(c, branch) ==
    c.branches[CHOOSE n \in DOMAIN c.branches : c.branches[n].name = branch]

arches_by_branch(c, branch) == branch_record(c, branch).arches

\* CB.images: the image names in configuration order
images(c) == [n \in DOMAIN c.images |-> c.images[n].name]

image_record(c, image) ==
    c.images[CHOOSE n \in DOMAIN c.images : c.images[n].name = image]

kinds_by_image(c, image) == image_record(c, image).kinds

target_by_image(c, image) == image_record(c, image).target

tests_by_image(c, image) == image_record(c, image).tests

\* ---------------------------------------------------------------- image size
Digits == <<"0", "1", "2", "3", "4", "5", "6", "7", "8", "9">>

is_digits(s) == s # <<>> /\ \A n \in DOMAIN s : s[n] \in Range(Digits)

\* int of a sequence of digits
RECURSIVE number(_)
number(s) ==
    IF s = <<>> THEN 0
    ELSE 10 * number(SubSeq(s, 1, Len(s) - 1))
             + (CHOOSE d \in 0..9 : Digits[d + 1] = s[Len(s)])

\* str of a natural number
RECURSIVE str(_)
str(n) == IF n < 10 THEN <<Digits[n + 1]>> ELSE 
    Append(str(n \div 10), Digits[(n % 10) + 1])

RECURSIVE power(_, _)
power(b, e) == IF e = 0 THEN 1 ELSE b * power(b, e - 1)

\* convert_size: the multiplier of a suffix, matched ignoring case; 0 for no suffix
multiplier(suff) ==
    IF suff \in {"k", "K"} THEN power(2, 10)
    ELSE IF suff \in {"m", "M"} THEN power(2, 20)
    ELSE IF suff \in {"g", "G"} THEN power(2, 30)
    ELSE 0

\* The suffix group of the pattern: the last character when it is one of kmg
size_suff(size) ==
    IF size # <<>> /\ multiplier(size[Len(size)]) # 0 THEN <<size[Len(size)]>> ELSE <<>>

\* What is left for the num group
size_num(size) == SubSeq(size, 1, Len(size) - Len(size_suff(size)))

\* (:?.\d+) : an optional colon, any one character, digits
size_fraction_matches(s) ==
    \/ Len(s) >= 2 /\ is_digits(Tail(s))
    \/ Len(s) >= 3 /\ s[1] = ":" /\ is_digits(SubSeq(s, 3, Len(s)))

\* \d+(:?.\d+)?
size_num_matches(s) ==
    \E p \in DOMAIN s :
        /\ is_digits(SubSeq(s, 1, p))
        /\ p = Len(s) \/ size_fraction_matches(SubSeq(s, p + 1, Len(s)))

\* The position of the decimal point of a num that float() accepts, 0 for an
\* integer; -1 when float() raises ValueError.  Sizes are written with digits,
\* the point, the colon, letters other than e, and no underscore.
float_point(s) ==
    IF is_digits(s) THEN 0
    ELSE IF \E p \in DOMAIN s : /\ s[p] = "."
                                /\ is_digits(SubSeq(s, 1, p - 1))
                                /\ is_digits(SubSeq(s, p + 1, Len(s)))
    THEN CHOOSE p \in DOMAIN s : s[p] = "."
    ELSE -1

\* round(num * mul), halves to the even neighbour
round_product(s, mul) ==
    LET p == float_point(s)
        whole == IF p = 0 THEN s ELSE SubSeq(s, 1, p - 1) \o SubSeq(s, p + 1, Len(s))
        den == IF p = 0 THEN 1 ELSE power(10, Len(s) - p)
        q == (number(whole) * mul) \div den
        r == (number(whole) * mul) % den
    IN  IF 2 * r > den \/ (2 * r = den /\ q % 2 = 1) THEN q + 1 ELSE q

NoSize == <<>>

\* convert_size(size): what it raises ("" for nothing) and the string it returns
convert_size(size) ==
    IF ~size_num_matches(size_num(size))
    THEN [raises |-> "Error", result |-> NoSize]
    ELSE IF float_point(size_num(size)) = -1
    THEN [raises |-> "ValueError", result |-> NoSize]
    ELSE [raises |-> "",
          result |-> str(round_product(size_num(size),
                                       IF size_suff(size) = <<>> THEN 1
                                       ELSE multiplier(size_suff(size)[1])))]

skip_arch_never(c, image, arch) == FALSE

skip_arch(c, image, arch) == arch \in image_record(c, image).exclude_arches

skip_branch(c, image, branch) == branch \in image_record(c, image).exclude_branches

\* size_by_image(image): None for an image without size
size_by_image(c, image) ==
    IF "size" \in DOMAIN image_record(c, image)
    THEN convert_size(image_record(c, image).size)
    ELSE [raises |-> "", result |-> NoSize]

\* CB.all_arches: the arches of all branches, each once
RECURSIVE dedup(_)
dedup(s) ==
    IF s = <<>> THEN <<>>
    ELSE LET front == dedup(SubSeq(s, 1, Len(s) - 1))
         IN  IF s[Len(s)] \in Range(front) THEN front ELSE Append(front, s[Len(s)])

all_arches(c) == dedup(Flatten([n \in DOMAIN c.branches |-> c.branches[n].arches]))

\* ---------------------------------------------------------------- publish topology
\* CB._remote_formaters
remote_formaters(c) == Range(c.remote) \cap {"{branch}", "{arch}"}

is_remote_arch_never(c) == FALSE

is_remote_arch(c) == "{arch}" \in remote_formaters(c)

is_remote_branch(c) == "{branch}" \in remote_formaters(c)

\* self._remote.format(branch=branch, arch=arch)
format_remote(c, branch, arch) ==
    Join([n \in DOMAIN c.remote |->
            IF c.remote[n] = "{branch}" THEN Join(branch)
            ELSE IF c.remote[n] = "{arch}" THEN arch
            ELSE c.remote[n]])

\* self._images_dir: built_images_dir when given (built), else data_dir/images
base_images_dir(built) == IF built THEN <<"built">> ELSE <<"data", "images">>

images_dir_flat(c, built, branch, arch) == base_images_dir(built)

images_dir(c, built, branch, arch) ==
    base_images_dir(built)
        \o (IF is_remote_branch(c) THEN <<Join(branch)>> ELSE <<>>)
        \o (IF is_remote_arch(c) THEN <<arch>> ELSE <<>>)

images_dirs_remotes_list(c, built) ==
    IF is_remote_branch(c)
    THEN Flatten([b \in DOMAIN branches(c) |->
            LET branch == branches(c)[b]
                arches == arches_by_branch(c, branch)
            IN  IF is_remote_arch(c)
                THEN [a \in DOMAIN arches |->
                        <<base_images_dir(built) \o <<Join(branch), arches[a]>>,
                          format_remote(c, branch, arches[a])>>]
                ELSE << <<base_images_dir(built) \o <<Join(branch)>>,
                          format_remote(c, branch, "")>> >>])
    ELSE IF is_remote_arch(c)
         THEN [a \in DOMAIN all_arches(c) |->
                 <<base_images_dir(built) \o <<all_arches(c)[a]>>,
                   format_remote(c, <<>>, all_arches(c)[a])>>]
         ELSE << <<base_images_dir(built), format_remote(c, <<>>, "")>> >>

images_dirs_list(c, built) ==
    [n \in DOMAIN images_dirs_remotes_list(c, built) |->
        images_dirs_remotes_list(c, built)[n][1]]

\* ---------------------------------------------------------------- the build matrix
\* The nested loops of create_images: branch, image, arch, kind, with the skips.
KindUnits(c, branch, image, arch) ==
    [k \in DOMAIN kinds_by_image(c, image) |->
        [branch |-> branch, image |-> image, arch |-> arch,
         kind |-> kinds_by_image(c, image)[k]]]

ArchUnits(c, branch, image) ==
    Flatten([a \in DOMAIN arches_by_branch(c, branch) |->
        IF skip_arch(c, image, arches_by_branch(c, branch)[a]) THEN <<>>
        ELSE KindUnits(c, branch, image, arches_by_branch(c, branch)[a])])

ImageUnits(c, branch) ==
    Flatten([m \in DOMAIN images(c) |->
        IF skip_branch(c, images(c)[m], branch) THEN <<>>
        ELSE ArchUnits(c, branch, images(c)[m])])

MatrixUnits(c) == Flatten([b \in DOMAIN branches(c) |-> ImageUnits(c, branches(c)[b])])

\* ---------------------------------------------------------------- names
branch_target_unkeyed(c, u) == target_by_image(c, u.image)

\* build_tarball: target = f'{target}_{self.escape_branch(branch)}'
branch_target(c, u) == target_by_image(c, u.image) \o <<"_">> \o escape_branch(u.branch)

\* build_tarball: full_target = f'{target}.{kind}'
full_target(c, u) == Join(branch_target(c, u)) \o "." \o u.kind

\* build_tarball: tarball_name = f'{image}-{arch}.{kind}'
tarball_name(c, u) ==
    Join(strip_dirs(branch_target(c, u))) \o "-" \o u.arch \o "." \o u.kind

\* The standard output of a renaming program called with name: renamer.py of the
\* tests prints one fixed name, prefix.sh prints its argument after a prefix
run_prog(prog, name) ==
    IF prog = "renamer.py" THEN <<"lxd.tar.xz", "\n">>
    ELSE IF prog = "prefix.sh" THEN <<" ", "new-">> \o name \o <<"\n">>
    ELSE <<>>

\* str.strip() on a sequence of pieces of text
RECURSIVE strip(_)
strip(s) ==
    IF s = <<>> THEN s
    ELSE IF Head(s) \in {" ", "\n"} THEN strip(Tail(s))
    ELSE IF s[Len(s)] \in {" ", "\n"} THEN strip(SubSeq(s, 1, Len(s) - 1))
    ELSE s

rename_to_only(rename_dict, name) == <<rename_dict.to>>

\* cloud_build.rename.rename; the name is a sequence of pieces and regex matches
\* whole pieces
rename(rename_dict, name) ==
    IF rename_dict.regex # ""
    THEN [n \in DOMAIN name |->
            IF name[n] = rename_dict.regex THEN rename_dict.to ELSE name[n]]
    ELSE IF rename_dict.prog # ""
    THEN strip(run_prog(rename_dict.prog, name))
    ELSE <<rename_dict.to>>

\* CB.image_path
image_path(c, built, u) ==
    LET name == <<"alt", "-">> \o <<Join(lower(u.branch))>>
                    \o <<"-", u.image, "-", u.arch, ".", u.kind>>
        rename_dict == image_record(c, u.image).rename
        final == IF rename_dict # NoRename THEN rename(rename_dict, name) ELSE name
    IN  Append(images_dir(c, built, u.branch, u.arch), Join(final))

IsPrefix(p, s) == Len(p) <= Len(s) /\ SubSeq(s, 1, Len(p)) = p

\* ---------------------------------------------------------------- per configuration
\* What the code derives from the configuration alone, computed once for each
\* configuration document.
Resolved(c) ==
    LET units == MatrixUnits(c)
    IN  [units |-> units,
         tarball |-> [k \in DOMAIN units |-> tarball_name(c, units[k])],
         full_target |-> [k \in DOMAIN units |-> full_target(c, units[k])],
         image_path |-> [built \in BOOLEAN |->
                            [k \in DOMAIN units |-> image_path(c, built, units[k])]],
         tests |-> [k \in DOMAIN units |-> tests_by_image(c, units[k].image)],
         size |-> [k \in DOMAIN units |-> size_by_image(c, units[k].image)],
         dirs |-> [built \in BOOLEAN |-> images_dirs_list(c, built)],
         pairs |-> [built \in BOOLEAN |-> images_dirs_remotes_list(c, built)]]

\* What parse_config makes of each entry of Configs
Parsed == [n \in DOMAIN Configs |-> parse_config(Configs[n])]

\* Nothing is derived from a configuration that parse_config rejects
NoResolved ==
    [units |-> <<>>, tarball |-> <<>>, full_target |-> <<>>,
     image_path |-> [built \in BOOLEAN |-> <<>>], tests |-> <<>>, size |-> <<>>,
     dirs |-> [built \in BOOLEAN |-> <<>>], pairs |-> [built \in BOOLEAN |-> <<>>]]

Resolve ==
    [n \in DOMAIN Configs |->
        IF Parsed[n].error = NoError THEN Resolved(Parsed[n].config) ELSE NoResolved]

\* The document the objects are constructed from, and the configuration they work with
Document == Configs[cfg]

Config == Parsed[cfg].config
Units == Resolve[cfg].units

\* ---------------------------------------------------------------- how a call ends
NoPath == <<>>

Outcome(type, msg, errors, path) ==
    [type |-> type, msg |-> msg, errors |-> errors, path |-> path]

NotCalled == Outcome("none", "", <<>>, NoPath)
Running == Outcome("running", "", <<>>, NoPath)
Returned == Outcome("ok", "", <<>>, NoPath)

\* CB.error(msg): raise Error(msg)
Error(msg) == Outcome("Error", msg, <<>>, NoPath)

\* BuildError(target, arch)
BuildError(target, arch) == Outcome("BuildError", "", << <<target, arch>> >>, NoPath)

\* MultipleBuildErrors(build_errors)
MultipleBuildErrors(errors) == Outcome("MultipleBuildErrors", "", errors, NoPath)

\* create_images: self.error(f'Test for {image} failed'), for the artifact at path
TestFailed(path) == Outcome("Error", "Test failed", <<>>, path)

\* image_tests.test: raise Exception(f'Undefined test method {method}'), for the
\* artifact at path
UndefinedTestMethod(path) == Outcome("Exception", "Undefined test method", <<>>, path)

\* float() of a string that is no number
ValueError == Outcome("ValueError", "", <<>>, NoPath)

\* os.link on an existing destination
FileExistsError(path) == Outcome("FileExistsError", "", <<>>, path)

\* os.link on a missing source
FileNotFoundError(path) == Outcome("FileNotFoundError", "", <<>>, path)

\* A builder invocation: by object inst for unit k, after should_rebuild deleted a
\* stale tarball (evicted) or found none; it exited with rc and wrote the file (created)
\* or not.
NoBuild == [inst |-> 0, k |-> 0, evicted |-> FALSE, rc |-> 0, created |-> FALSE]

\* ---------------------------------------------------------------- files
EmptyFS == [n \in {} |-> 0]

Remove(fs, names) == [n \in DOMAIN fs \ names |-> fs[n]]

Put(fs, name, file) == (name :> file) @@ fs

\* ---------------------------------------------------------------- constraint resolver
\* An item of packages or services whose value is None
NoRecord == [none |-> TRUE]

\* Strings that re.match looks into are sequences of characters
Chars(s) ==
    CASE s = "" -> <<>>
      [] s = "enabled" -> <<"e", "n", "a", "b", "l", "e", "d">>
      [] s = "enable" -> <<"e", "n", "a", "b", "l", "e">>
      [] s = "disabled" -> <<"d", "i", "s", "a", "b", "l", "e", "d">>
      [] s = "enabled?" -> <<"e", "n", "a", "b", "l", "e", "d", "?">>
      [] s = "disabled?" -> <<"d", "i", "s", "a", "b", "l", "e", "d", "?">>

\* re.match(pattern, s) for a pattern of literal characters, each optionally followed
\* by "?": the pattern matches a prefix of s
RECURSIVE re_match(_, _)
re_match(pattern, s) ==
    IF pattern = <<>> THEN TRUE
    ELSE IF Len(pattern) >= 2 /\ pattern[2] = "?"
    THEN \/ s # <<>> /\ s[1] = pattern[1] /\ re_match(SubSeq(pattern, 3, Len(pattern)), Tail(s))
         \/ re_match(SubSeq(pattern, 3, Len(pattern)), s)
    ELSE s # <<>> /\ s[1] = pattern[1] /\ re_match(Tail(pattern), Tail(s))

item_included_ignores_exclusions(record, image, branch, state_re, default_state) ==
    LET constraints == IF record = NoRecord THEN [none \in {} |-> TRUE] ELSE record
    IN  /\ image \in Range(Get(constraints, "images", <<image>>))
        /\ branch \in Range(Get(constraints, "branch", <<branch>>))
        /\ re_match(Chars(state_re), Chars(Get(constraints, "state", default_state)))

\* get_items: the test made for one item
item_included(record, image, branch, state_re, default_state) ==
    LET constraints == IF record = NoRecord THEN [none \in {} |-> TRUE] ELSE record
    IN  IF \/ image \in Range(Get(constraints, "exclude_images", <<>>))
           \/ branch \in Range(Get(constraints, "exclude_branches", <<>>))
        THEN FALSE
        ELSE /\ image \in Range(Get(constraints, "images", <<image>>))
             /\ branch \in Range(Get(constraints, "branch", <<branch>>))
             /\ re_match(Chars(state_re), Chars(Get(constraints, "state", default_state)))

\* get_items(data, image, branch, state_re, default_state), with "None" for an
\* argument that is not given; data is a list of <<item, constraints>>
RECURSIVE get_items(_, _, _, _, _)
get_items(data, image, branch, state_re, default_state) ==
    LET re == IF state_re = "None" THEN "" ELSE state_re
        default == IF default_state = "None" THEN re ELSE default_state
    IN  IF data = <<>> THEN <<>>
        ELSE LET rest == get_items(SubSeq(data, 1, Len(data) - 1), image, branch,
                                   state_re, default_state)
                 item == data[Len(data)]
             IN  IF item_included(item[2], image, branch, re, default)
                 THEN Append(rest, item[1]) ELSE rest

service_default_state_disabled == "disabled"

\* self.service_default_state
service_default_state == "enabled"

\* The packages and the services sections of the configuration: "vim" with the
\* constraint record under consideration, "gosu" with none
items_data == << <<"vim", items_constraints>>, <<"gosu", NoRecord>> >>

NoItemsCall ==
    [resolver |-> "none", image |-> "", branch |-> <<>>, resolved |-> <<>>, items |-> <<>>]

\* The constraint records considered
ConstraintKeys ==
    {"images", "branch", "branches", "exclude_images", "exclude_branches", "state"}

FullConstraints ==
    [images : {<<"rootfs">>, <<"cloud">>},
     branch : {<< <<"p", "9">> >>},
     branches : {<< <<"p", "9">> >>},
     exclude_images : {<<"rootfs">>},
     exclude_branches : {<< <<"S", "i", "s">> >>},
     state : {"enabled", "disabled", "enable"}]

ConstraintRecords ==
    {[k \in K |-> full[k]] : K \in (SUBSET ConstraintKeys) \ {{}}, full \in FullConstraints}
        \cup {NoRecord}

\* CB.packages, CB.enabled_services, CB.disabled_services
ItemsCall(resolver, explicit, image, branch, state_re, default_state) ==
    /\ items_result' =
          LET resolved == get_items(items_data, image, branch, state_re, default_state)
          IN  [resolver |-> resolver, image |-> image, branch |-> branch,
               resolved |-> resolved,
               items |-> Get(image_record(Config, image), explicit, <<>>) \o resolved]
    /\ UNCHANGED <<cfg, now, out_dir, images_fs, fragment, fragment_rules, flock_holder, life,
                   initialized, lock_file, no_build, build_errors, pc, idx, no_tests,
                   ustate, tested, lastBuild, last, runs, items_constraints>>
    /\ UNCHANGED syncVars

packages(image, branch) ==
    ItemsCall("packages", "packages", image, branch, "None", "None")

enabled_services(image, branch) ==
    ItemsCall("enabled_services", "services_enabled", image, branch,
              "enabled?", service_default_state)

disabled_services(image, branch) ==
    ItemsCall("disabled_services", "services_disabled", image, branch,
              "disabled?", service_default_state)

\* ---------------------------------------------------------------- the build fragment
prerequisites_by_branch(c, branch) == Get(branch_record(c, branch), "prerequisites", <<>>)

prerequisites_by_image(c, image) == Get(image_record(c, image), "prerequisites", <<>>)

branding_unless_empty(c, image, branch) ==
    IF Get(image_record(c, image), "branding", "") # ""
    THEN image_record(c, image).branding
    ELSE Get(branch_record(c, branch), "branding", "")

\* CB.branding: the image's branding unless it is None, else the branch's, else ''
branding(c, image, branch) ==
    IF "branding" \in DOMAIN image_record(c, image)
    THEN image_record(c, image).branding
    ELSE Get(branch_record(c, branch), "branding", "")

packages_resolved_first(c, image, branch) ==
    get_items(items_data, image, branch, "None", "None")
        \o Get(image_record(c, image), "packages", <<>>)

\* CB.packages, CB.enabled_services, CB.disabled_services: the lists they return
packages_of(c, image, branch) ==
    Get(image_record(c, image), "packages", <<>>)
        \o get_items(items_data, image, branch, "None", "None")

enabled_services_of(c, image, branch) ==
    Get(image_record(c, image), "services_enabled", <<>>)
        \o get_items(items_data, image, branch, "enabled?", service_default_state)

disabled_services_of(c, image, branch) ==
    Get(image_record(c, image), "services_disabled", <<>>)
        \o get_items(items_data, image, branch, "disabled?", service_default_state)

\* add_recipe(variable, value): @$(call add,variable,value)
add_recipe(variable, value) == [call |-> "add", variable |-> variable, value |-> value]

\* @$(call set,BRANDING,branding), when branding is not empty
branding_recipes(c, image, branch) ==
    IF branding(c, image, branch) # ""
    THEN <<[call |-> "set", variable |-> "BRANDING", value |-> branding(c, image, branch)]>>
    ELSE <<>>

\* ensure_mkimage_profiles: the recipes of one rule
recipes(c, image, branch) ==
    branding_recipes(c, image, branch)
        \o [n \in DOMAIN packages_of(c, image, branch) |->
              add_recipe("BASE_PACKAGES", packages_of(c, image, branch)[n])]
        \o [n \in DOMAIN enabled_services_of(c, image, branch) |->
              add_recipe("DEFAULT_SERVICES_ENABLE", enabled_services_of(c, image, branch)[n])]
        \o [n \in DOMAIN disabled_services_of(c, image, branch) |->
              add_recipe("DEFAULT_SERVICES_DISABLE",
                         disabled_services_of(c, image, branch)[n])]

\* ensure_mkimage_profiles: prerequisites of one rule
prerequisites(c, image, branch) ==
    <<Join(target_by_image(c, image))>>
        \o prerequisites_by_branch(c, branch) \o prerequisites_by_image(c, image)

\* ensure_mkimage_profiles: {target}_{ebranch}
rule_name(c, image, branch) ==
    Join(target_by_image(c, image) \o <<"_">> \o escape_branch(branch))

\* ensure_mkimage_profiles: {target}_{ebranch}: {prerequisites_s}; @:{recipes_s}
rule(c, image, branch) ==
    [name |-> rule_name(c, image, branch),
     prerequisites |-> prerequisites(c, image, branch),
     recipes |-> recipes(c, image, branch)]

\* ensure_mkimage_profiles: for image in self.images: for branch in self.branches
generated_rules(c) ==
    Flatten([m \in DOMAIN images(c) |->
        [b \in DOMAIN branches(c) |-> rule(c, images(c)[m], branches(c)[b])]])

write_fragment_appends(previous, rules) == previous \o rules

\* open(f'conf.d/{PROG}.mk', 'w') and the prints: the file holds what was printed
write_fragment(previous, rules) == rules

\* ---------------------------------------------------------------- initial state
InitOf(configs, records) ==
    /\ cfg \in configs
    /\ now = 0
    /\ out_dir = EmptyFS
    /\ images_fs = EmptyFS
    /\ fragment = 0
    /\ fragment_rules = <<>>
    /\ flock_holder = 0
    /\ life = [i \in Instances |-> "unborn"]
    /\ initialized = [i \in Instances |-> FALSE]
    /\ lock_file = [i \in Instances |-> "none"]
    /\ no_build = [i \in Instances |-> FALSE]
    /\ build_errors = [i \in Instances |-> <<>>]
    /\ pc = [i \in Instances |-> "idle"]
    /\ idx = [i \in Instances |-> 0]
    /\ no_tests = [i \in Instances |-> FALSE]
    /\ ustate = [i \in Instances |-> <<>>]
    /\ tested = [i \in Instances |-> <<>>]
    /\ lastBuild = NoBuild
    /\ last = [i \in Instances |-> NotCalled]
    /\ runs = 0
    /\ items_constraints \in records
    /\ items_result = NoItemsCall
    /\ remote_fs = EmptyFS
    /\ rsync_log = <<>>
    /\ sign_log = <<>>
    /\ after_log = <<>>

InitWith(configs) == InitOf(configs, {NoRecord})

\* ---------------------------------------------------------------- the run lock
\* ensure_run_once: fcntl.flock(LOCK_EX | LOCK_NB) succeeds iff no other open file
\* description holds the lock
ensure_run_once_ignores_lock == TRUE

ensure_run_once_ok == flock_holder = 0

\* CB.__init__, with built_images_dir given (built) or not
Construct(i, built) ==
    /\ life[i] = "unborn"
    /\ \A j \in Instances : j < i => life[j] # "unborn"
    /\ life' = [life EXCEPT ![i] = "live"]
    /\ IF Parsed[cfg].error # NoError
       THEN \* parse_config raises: nothing but self.initialized = False is set
            /\ initialized' = [initialized EXCEPT ![i] = FALSE]
            /\ last' = [last EXCEPT ![i] = Error(Parsed[cfg].error)]
            /\ UNCHANGED <<no_build, build_errors, lock_file, flock_holder>>
       ELSE /\ no_build' = [no_build EXCEPT ![i] = built]
            /\ build_errors' = [build_errors EXCEPT ![i] = <<>>]
            /\ lock_file' = [lock_file EXCEPT ![i] = "open"]
            /\ IF ensure_run_once_ok
               THEN /\ flock_holder' = i
                    /\ initialized' = [initialized EXCEPT ![i] = TRUE]
                    /\ last' = [last EXCEPT ![i] = Returned]
               ELSE /\ flock_holder' = flock_holder
                    /\ initialized' = [initialized EXCEPT ![i] = FALSE]
                    /\ last' = [last EXCEPT ![i] = Error("already running")]
    /\ UNCHANGED resolverVars
    /\ UNCHANGED syncVars
    /\ UNCHANGED <<cfg, now, out_dir, images_fs, fragment, fragment_rules, pc, idx, no_tests, ustate,
                   tested, lastBuild, runs>>

close_releases_any_lock(i) == TRUE

\* self.lock_file.close(): a flock lock goes with the open file description that took
\* it, so closing the lock file of object i releases the lock iff i holds it
close_releases_lock(i) == flock_holder = i

\* CB.__del__: an object that is not initialized only closes its lock file; an
\* initialized one removes the fragment and closes the lock file, which releases the
\* lock it holds.  The object and what it recorded are gone afterwards.
Destroy(i) ==
    /\ life[i] = "live"
    /\ pc[i] = "idle"
    /\ life' = [life EXCEPT ![i] = "dead"]
    /\ lock_file' = [lock_file EXCEPT ![i] = IF @ = "open" THEN "closed" ELSE @]
    /\ flock_holder' = IF close_releases_lock(i) THEN 0 ELSE flock_holder
    /\ fragment' = IF initialized[i] THEN 0 ELSE fragment
    /\ fragment_rules' = IF initialized[i] THEN <<>> ELSE fragment_rules
    /\ initialized' = [initialized EXCEPT ![i] = FALSE]
    /\ no_build' = [no_build EXCEPT ![i] = FALSE]
    /\ build_errors' = [build_errors EXCEPT ![i] = <<>>]
    /\ idx' = [idx EXCEPT ![i] = 0]
    /\ no_tests' = [no_tests EXCEPT ![i] = FALSE]
    /\ ustate' = [ustate EXCEPT ![i] = <<>>]
    /\ tested' = [tested EXCEPT ![i] = <<>>]
    /\ last' = [last EXCEPT ![i] = NotCalled]
    /\ lastBuild' = IF lastBuild.inst = i THEN NoBuild ELSE lastBuild
    /\ UNCHANGED resolverVars
    /\ UNCHANGED syncVars
    /\ UNCHANGED <<cfg, now, out_dir, images_fs, pc, runs>>

\* ---------------------------------------------------------------- the cache
should_rebuild_at_threshold(tarball) ==
    IF tarball \notin DOMAIN out_dir
    THEN TRUE
    ELSE now - out_dir[tarball].mtime >= Config.rebuild_after

should_rebuild_always(tarball) == TRUE

\* should_rebuild: the verdict
should_rebuild(tarball) ==
    IF tarball \notin DOMAIN out_dir
    THEN TRUE
    ELSE now - out_dir[tarball].mtime > Config.rebuild_after

evict_nothing(tarball) == out_dir

\* should_rebuild: its effect on the output directory (os.unlink of a stale tarball)
evict(tarball) ==
    IF tarball \in DOMAIN out_dir /\ should_rebuild(tarball)
    THEN Remove(out_dir, {tarball})
    ELSE out_dir

build_succeeded_by_exit_status(out, tarball, rc) == rc = 0

\* build_tarball: os.path.exists(tarball_path) after the builder ran with exit status rc
build_succeeded(out, tarball, rc) == tarball \in DOMAIN out

remove_old_tarballs_never(out) == out

\* remove_old_tarballs
remove_old_tarballs(out) ==
    Remove(out, {tb \in DOMAIN out : now - out[tb].mtime > Config.rebuild_after})

clear_images_dir_never(i) == images_fs

\* clear_images_dir: everything below the publish directories of object i goes
clear_images_dir(i) ==
    Remove(images_fs,
           {path \in DOMAIN images_fs :
               \E d \in Range(Resolve[cfg].dirs[no_build[i]]) : IsPrefix(d, path)})

\* ---------------------------------------------------------------- failure policy
build_failed_never_raises == FALSE

build_failed_always_raises == TRUE

\* build_failed: does it raise (failFast) or record (tryAll)
build_failed_raises == ~Config.try_build_all

\* ensure_build_success: does it raise
ensure_build_success_raises(i) == build_errors[i] # <<>>

\* cloud_build.image_tests.test: the arches on which a test is run at all
test_runs_on(arch) == arch \in {"x86_64", "i586"}

\* The methods that match prog\(([-.\w]+)\), among those of the configurations
ProgMethods == {"prog(check.sh)"}

\* image_tests.test: the branch that the method selects
test_method(method) ==
    IF method = "lxd" THEN "lxd"
    ELSE IF method = "docker" THEN "docker"
    ELSE IF method \in ProgMethods THEN "prog"
    ELSE "undefined"

\* image_tests.test(method, image, branch, arch): "passed" (True), "failed" (False)
\* or "undefined" (raises Exception); commands_ok: every command exits with 0
test(method, arch, commands_ok) ==
    IF ~test_runs_on(arch) THEN "passed"
    ELSE IF test_method(method) = "undefined" THEN "undefined"
    ELSE IF commands_ok THEN "passed"
    ELSE "failed"

\* The loop over tests_by_image in create_images: it ends at the first test that
\* does not pass
RECURSIVE run_tests(_, _, _)
run_tests(tests, arch, commands_ok) ==
    IF tests = <<>> THEN "passed"
    ELSE IF test(Head(tests), arch, commands_ok) = "passed"
    THEN run_tests(Tail(tests), arch, commands_ok)
    ELSE test(Head(tests), arch, commands_ok)

\* ---------------------------------------------------------------- create_images
build_skipped_never(i) == FALSE

\* create_images: if self.no_build
build_skipped(i) == no_build[i]

\* create_images up to the loop: the no_build guard, clear_images_dir and
\* ensure_mkimage_profiles (git may fail; the fragment is rewritten)
CreateImagesBegin(i, nt, git_ok) ==
    /\ life[i] = "live" /\ initialized[i]
    /\ pc[i] = "idle"
    /\ runs < MaxRuns
    /\ runs' = runs + 1
    /\ no_tests' = [no_tests EXCEPT ![i] = nt]
    /\ ustate' = [ustate EXCEPT ![i] = [k \in DOMAIN Units |-> "pending"]]
    /\ tested' = [tested EXCEPT ![i] = [k \in DOMAIN Units |-> "no"]]
    /\ lastBuild' = NoBuild
    /\ IF build_skipped(i)
       THEN /\ last' = [last EXCEPT ![i] = Error("build stage should be skipped")]
            /\ idx' = [idx EXCEPT ![i] = 0]
            /\ UNCHANGED <<images_fs, fragment, fragment_rules, pc>>
       ELSE /\ images_fs' = clear_images_dir(i)
            /\ IF git_ok
               THEN /\ fragment' = i
                    /\ fragment_rules' = write_fragment(fragment_rules, generated_rules(Config))
                    /\ pc' = [pc EXCEPT ![i] = "loop"]
                    /\ idx' = [idx EXCEPT ![i] = 1]
                    /\ last' = [last EXCEPT ![i] = Running]
               ELSE /\ last' = [last EXCEPT ![i] = Error("git failed")]
                    /\ idx' = [idx EXCEPT ![i] = 0]
                    /\ UNCHANGED <<fragment, fragment_rules, pc>>
    /\ UNCHANGED resolverVars
    /\ UNCHANGED syncVars
    /\ UNCHANGED <<cfg, now, out_dir, flock_holder, life, initialized, lock_file,
                   no_build, build_errors>>

invokes_builder_always(rebuild) == TRUE

\* build_tarball: the builder is called unless should_rebuild said no
invokes_builder(rebuild) == rebuild

returns_tarball_only_when_built(rebuild, exists) == rebuild /\ exists

\* build_tarball: does it return the tarball path (or None), given should_rebuild's
\* verdict and whether the file exists after the builder ran
returns_tarball(rebuild, exists) == ~rebuild \/ exists

test_failure_follows_policy == ~Config.try_build_all

\* create_images: a failing test raises, whatever the failure policy
test_failure_raises == TRUE

\* One iteration of the loop of create_images: size_by_image, build_tarball (should_rebuild, the
\* builder, build_failed), image_path, copy_image and the tests.  rc and created are
\* what the builder does when invoked, passed what the tests do when run.
ProcessUnit(i, rc, created, passed) ==
    /\ pc[i] = "loop"
    /\ idx[i] <= Len(Units)
    /\ LET k == idx[i]
           u == Units[k]
           tarball == Resolve[cfg].tarball[k]
           target == Resolve[cfg].full_target[k]
           path == Resolve[cfg].image_path[no_build[i]][k]
           rebuild == should_rebuild(tarball)
           evicted == evict(tarball)
           built == IF invokes_builder(rebuild) /\ created
                    THEN Put(evicted, tarball, [mtime |-> now, by |-> u])
                    ELSE evicted
           exists == build_succeeded(built, tarball, rc)
           failed == rebuild /\ ~exists
           runs_tests == ~no_tests[i] /\ Resolve[cfg].tests[k] # <<>> /\ test_runs_on(u.arch)
           result == run_tests(Resolve[cfg].tests[k], u.arch, passed)
           size == Resolve[cfg].size[k]
       IN  IF size.raises # ""
           THEN \* size_by_image raises before build_tarball is called
                /\ last' = [last EXCEPT ![i] = IF size.raises = "Error"
                                               THEN Error("Bad size format")
                                               ELSE ValueError]
                /\ pc' = [pc EXCEPT ![i] = "idle"]
                /\ UNCHANGED <<out_dir, lastBuild, ustate, build_errors, images_fs,
                               tested, idx>>
           ELSE
           /\ out_dir' = built
           /\ lastBuild' = IF invokes_builder(rebuild)
                           THEN [inst |-> i, k |-> k, evicted |-> tarball \in DOMAIN out_dir,
                                 rc |-> rc, created |-> created]
                           ELSE lastBuild
           /\ ustate' = [ustate EXCEPT ![i][k] =
                            IF ~rebuild THEN "skipped"
                            ELSE IF exists THEN "succeeded" ELSE "failed"]
           /\ build_errors' = [build_errors EXCEPT ![i] =
                                  IF failed /\ ~build_failed_raises
                                  THEN Append(@, <<target, u.arch>>) ELSE @]
           /\ IF failed /\ build_failed_raises
              THEN \* build_failed raises
                   /\ last' = [last EXCEPT ![i] = BuildError(target, u.arch)]
                   /\ pc' = [pc EXCEPT ![i] = "idle"]
                   /\ UNCHANGED <<images_fs, tested, idx>>
              ELSE IF ~returns_tarball(rebuild, exists)
              THEN \* tarball is None: continue
                   /\ idx' = [idx EXCEPT ![i] = k + 1]
                   /\ UNCHANGED <<images_fs, tested, last, pc>>
              ELSE IF tarball \notin DOMAIN built
              THEN \* copy_image: os.link fails, no source
                   /\ last' = [last EXCEPT ![i] = FileNotFoundError(path)]
                   /\ pc' = [pc EXCEPT ![i] = "idle"]
                   /\ UNCHANGED <<images_fs, tested, idx>>
              ELSE IF path \in DOMAIN images_fs
              THEN \* copy_image: os.link fails, the destination exists
                   /\ last' = [last EXCEPT ![i] = FileExistsError(path)]
                   /\ pc' = [pc EXCEPT ![i] = "idle"]
                   /\ UNCHANGED <<images_fs, tested, idx>>
              ELSE /\ images_fs' = Put(images_fs, path, [by |-> built[tarball].by])
                   /\ tested' = [tested EXCEPT ![i][k] =
                                    IF ~runs_tests THEN "no" ELSE result]
                   /\ IF ~no_tests[i] /\ result = "undefined"
                      THEN /\ last' = [last EXCEPT ![i] = UndefinedTestMethod(path)]
                           /\ pc' = [pc EXCEPT ![i] = "idle"]
                           /\ UNCHANGED idx
                      ELSE IF runs_tests /\ result = "failed" /\ test_failure_raises
                      THEN /\ last' = [last EXCEPT ![i] = TestFailed(path)]
                           /\ pc' = [pc EXCEPT ![i] = "idle"]
                           /\ UNCHANGED idx
                      ELSE /\ idx' = [idx EXCEPT ![i] = k + 1]
                           /\ UNCHANGED <<last, pc>>
    /\ UNCHANGED resolverVars
    /\ UNCHANGED syncVars
    /\ UNCHANGED <<cfg, now, fragment, fragment_rules, flock_holder, life, initialized, lock_file,
                   no_build, no_tests, runs>>

\* create_images after the loop: ensure_build_success, then remove_old_tarballs
CreateImagesEnd(i) ==
    /\ pc[i] = "loop"
    /\ idx[i] = Len(Units) + 1
    /\ pc' = [pc EXCEPT ![i] = "idle"]
    /\ IF ensure_build_success_raises(i)
       THEN /\ last' = [last EXCEPT ![i] = MultipleBuildErrors(build_errors[i])]
            /\ out_dir' = out_dir
       ELSE /\ last' = [last EXCEPT ![i] = Returned]
            /\ out_dir' = remove_old_tarballs(out_dir)
    /\ UNCHANGED resolverVars
    /\ UNCHANGED syncVars
    /\ UNCHANGED <<cfg, now, images_fs, fragment, fragment_rules, flock_holder, life, initialized,
                   lock_file, no_build, build_errors, idx, no_tests, ustate, tested,
                   lastBuild, runs>>

\* time passes
Tick ==
    /\ now < MaxTime
    /\ now' = now + 1
    /\ UNCHANGED resolverVars
    /\ UNCHANGED syncVars
    /\ UNCHANGED <<cfg, out_dir, images_fs, fragment, fragment_rules, flock_holder, life, initialized,
                   lock_file, no_build, build_errors, pc, idx, no_tests, ustate,
                   tested, lastBuild, last, runs>>

\* ---------------------------------------------------------------- sync
\* parse_config: self.no_delete = cfg.get('no_delete', True)
no_delete_always == TRUE

no_delete == IF "no_delete" \in DOMAIN Config THEN Config.no_delete ELSE TRUE

\* The files below the local directory dir, as rsync sees them: relative path -> file
LocalFiles(dir) ==
    {SubSeq(path, Len(dir) + 1, Len(path)) :
        path \in {q \in DOMAIN images_fs : IsPrefix(dir, q)}}

\* rsync dir/ -rv remote [--delete] on the remote files fs
rsync(fs, dir, remote, delete) ==
    LET names == LocalFiles(dir)
        kept == IF delete
                THEN Remove(fs, {q \in DOMAIN fs :
                                    q[1] = remote /\ SubSeq(q, 2, Len(q)) \notin names})
                ELSE fs
    IN  [q \in DOMAIN kept \cup {<<remote>> \o name : name \in names} |->
            IF q[1] = remote /\ SubSeq(q, 2, Len(q)) \in names
            THEN images_fs[dir \o SubSeq(q, 2, Len(q))]
            ELSE kept[q]]

\* The loop of sync over the first n pairs of images_dirs_remotes_list
RECURSIVE sync_upto(_, _, _)
sync_upto(fs, pairs, n) ==
    IF n = 0 THEN fs
    ELSE rsync(sync_upto(fs, pairs, n - 1), pairs[n][1], pairs[n][2], ~no_delete)

\* parse_config: self._after_sync_commands = cfg.get('after_sync_commands', [])
after_sync_list(c) == Get(c, "after_sync_commands", <<>>)

\* remote.find(':'): the index of the first colon of the remote template, -1 for none
find_colon(remote) ==
    IF \E n \in DOMAIN remote : remote[n] = ":"
    THEN (CHOOSE n \in DOMAIN remote :
              remote[n] = ":" /\ \A m \in DOMAIN remote : remote[m] = ":" => n <= m) - 1
    ELSE -1

after_sync_cmd_local(c, command) == <<command>>

\* after_sync_commands: cmd(command), through ssh to remote[:colon] when the remote
\* has a colon
after_sync_cmd(c, command) ==
    IF find_colon(c.remote) # -1
    THEN <<"ssh", Join(SubSeq(c.remote, 1, find_colon(c.remote))), command>>
    ELSE <<command>>

\* CB.sync: one rsync per pair, then after_sync_commands: one call per configured
\* command; the first command of all these that exits with a non-zero status (the one
\* at failing, 0 for none) ends the call with an error
Sync(i, failing) ==
    /\ life[i] = "live" /\ initialized[i]
    /\ pc[i] = "idle"
    /\ LET pairs == Resolve[cfg].pairs[no_build[i]]
           commands == after_sync_list(Config)
           calls == Len(pairs) + Len(commands)
           issued == IF failing = 0 THEN calls ELSE failing
           synced == IF issued > Len(pairs) THEN Len(pairs) ELSE issued
           done == IF failing = 0 \/ failing > Len(pairs) THEN Len(pairs) ELSE failing - 1
       IN  /\ failing \in 0..calls
           /\ remote_fs' = sync_upto(remote_fs, pairs, done)
           /\ rsync_log' = [n \in 1..synced |->
                               [src |-> pairs[n][1], remote |-> pairs[n][2],
                                delete |-> ~no_delete,
                                rc |-> IF n = failing THEN 1 ELSE 0]]
           /\ after_log' = [n \in 1..(issued - synced) |->
                               [argv |-> after_sync_cmd(Config, commands[n]),
                                rc |-> IF Len(pairs) + n = failing THEN 1 ELSE 0]]
           /\ last' = [last EXCEPT ![i] =
                           IF failing = 0 THEN Returned
                           ELSE IF failing <= Len(pairs) THEN Error("rsync failed")
                           ELSE Error("Command failed")]
    /\ UNCHANGED resolverVars
    /\ UNCHANGED sign_log
    /\ UNCHANGED <<cfg, now, out_dir, images_fs, fragment, fragment_rules, flock_holder, life,
                   initialized, lock_file, no_build, build_errors, pc, idx, no_tests,
                   ustate, tested, lastBuild, runs>>

\* ---------------------------------------------------------------- sign
sign_key_always == "0"

\* self.key: "None" when neither the override nor the document has a key
sign_key == IF "key" \in DOMAIN Config THEN Config.key ELSE "None"

\* self.checksum_command.upper()
sum_file == "SHA256SUM"

\* A file that sign writes: the checksums, or their signature made with key
SignFile(kind, key) == [by |-> [branch |-> <<>>, image |-> key, arch |-> "", kind |-> kind]]

\* The files that the n-th command of sign leaves in its directory when it exits with
\* status zero: the checksum command of directory (n + 1) \div 2 for an odd n, gpg2
\* for an even n
sign_command(fs, dirs, n) ==
    LET dir == dirs[(n + 1) \div 2]
    IN  IF n % 2 = 1
        THEN Put(Put(fs, Append(dir, sum_file), SignFile("checksum", "")),
                 Append(dir, "SHA256SUMS"), SignFile("checksum", ""))
        ELSE Put(Put(fs, Append(dir, sum_file \o ".asc"), SignFile("signature", sign_key)),
                 Append(dir, "SHA256SUMS.gpg"), SignFile("signature", sign_key))

RECURSIVE sign_upto(_, _, _)
sign_upto(fs, dirs, n) ==
    IF n = 0 THEN fs ELSE sign_command(sign_upto(fs, dirs, n - 1), dirs, n)

\* CB.sign: without a key an error; else per publish directory the checksum command
\* and gpg2; the first command that exits with a non-zero status (the one at failing,
\* 0 for none) ends the call with an error
Sign(i, failing) ==
    /\ life[i] = "live" /\ initialized[i]
    /\ pc[i] = "idle"
    /\ LET dirs == Resolve[cfg].dirs[no_build[i]]
           done == IF failing = 0 THEN 2 * Len(dirs) ELSE failing - 1
           issued == IF failing = 0 THEN 2 * Len(dirs) ELSE failing
       IN  /\ failing \in 0..(2 * Len(dirs))
           /\ IF sign_key = "None"
              THEN /\ last' = [last EXCEPT ![i] = Error("Pass key to config file for sign")]
                   /\ sign_log' = <<>>
                   /\ UNCHANGED images_fs
              ELSE /\ images_fs' = sign_upto(images_fs, dirs, done)
                   /\ sign_log' = [n \in 1..issued |->
                                      [dir |-> dirs[(n + 1) \div 2],
                                       cmd |-> IF n % 2 = 1 THEN "sha256sum" ELSE "gpg2",
                                       key |-> sign_key,
                                       rc |-> IF n = failing THEN 1 ELSE 0]]
                   /\ last' = [last EXCEPT ![i] =
                                   IF failing = 0 THEN Returned
                                   ELSE Error("Command failed")]
    /\ UNCHANGED resolverVars
    /\ UNCHANGED <<remote_fs, rsync_log, after_log>>
    /\ UNCHANGED <<cfg, now, out_dir, fragment, fragment_rules, flock_holder, life, initialized,
                   lock_file, no_build, build_errors, pc, idx, no_tests, ustate,
                   tested, lastBuild, runs>>

\* A file that no unit of this program made
ForeignFile == [by |-> [branch |-> <<>>, image |-> "", arch |-> "", kind |-> ""]]

\* Somebody else puts a file at a remote
ForeignUpload(remote) ==
    /\ <<remote, "other_file.txt">> \notin DOMAIN remote_fs
    /\ remote_fs' = Put(remote_fs, <<remote, "other_file.txt">>, ForeignFile)
    /\ UNCHANGED resolverVars
    /\ UNCHANGED <<cfg, now, out_dir, images_fs, fragment, fragment_rules, flock_holder, life,
                   initialized, lock_file, no_build, build_errors, pc, idx, no_tests,
                   ustate, tested, lastBuild, last, runs, rsync_log, sign_log, after_log>>

\* An image put into built_images_dir by whoever built it
PrebuiltName == "prebuilt.tar"

PrebuiltImage ==
    /\ Append(base_images_dir(TRUE), PrebuiltName) \notin DOMAIN images_fs
    /\ images_fs' = Put(images_fs, Append(base_images_dir(TRUE), PrebuiltName), ForeignFile)
    /\ UNCHANGED resolverVars
    /\ UNCHANGED syncVars
    /\ UNCHANGED <<cfg, now, out_dir, fragment, fragment_rules, flock_holder, life, initialized,
                   lock_file, no_build, build_errors, pc, idx, no_tests, ustate,
                   tested, lastBuild, last, runs>>

\* A file that is no image put into a publish directory between the calls of an
\* object, as copy_external_files does
ExternalName == "README"

ExternalFile(i, dir) ==
    /\ life[i] = "live" /\ initialized[i]
    /\ pc[i] = "idle"
    /\ Append(dir, ExternalName) \notin DOMAIN images_fs
    /\ images_fs' = Put(images_fs, Append(dir, ExternalName), ForeignFile)
    /\ UNCHANGED resolverVars
    /\ UNCHANGED syncVars
    /\ UNCHANGED <<cfg, now, out_dir, fragment, fragment_rules, flock_holder, life,
                   initialized, lock_file, no_build, build_errors, pc, idx, no_tests,
                   ustate, tested, lastBuild, last, runs>>

\* A tarball in the output directory that no unit of the configuration names, left
\* there by a run with another configuration
LeftoverName == "leftover.tar"

LeftoverTarball ==
    /\ LeftoverName \notin DOMAIN out_dir
    /\ out_dir' = Put(out_dir, LeftoverName, [mtime |-> now, by |-> ForeignFile.by])
    /\ UNCHANGED resolverVars
    /\ UNCHANGED syncVars
    /\ UNCHANGED <<cfg, now, images_fs, fragment, fragment_rules, flock_holder, life, initialized,
                   lock_file, no_build, build_errors, pc, idx, no_tests, ustate,
                   tested, lastBuild, last, runs>>

\* conf.d/cloud-build.mk left in the mkimage-profiles checkout by a process that is
\* gone, which ran with another configuration
StaleRules == <<[name |-> "ve/old_p8", prerequisites |-> <<"ve/old">>, recipes |-> <<>>]>>

StaleFragment ==
    /\ flock_holder = 0
    /\ fragment = 0
    /\ fragment' = -1
    /\ fragment_rules' = StaleRules
    /\ UNCHANGED resolverVars
    /\ UNCHANGED syncVars
    /\ UNCHANGED <<cfg, now, out_dir, images_fs, flock_holder, life, initialized,
                   lock_file, no_build, build_errors, pc, idx, no_tests, ustate,
                   tested, lastBuild, last, runs>>

\* ---------------------------------------------------------------- specifications
\* One object and its create_images runs, under both failure policies.
First == {i \in Instances : \A j \in Instances : i <= j}

Init == InitWith({n \in DOMAIN Configs : Configs[n] \in {BaseConfig, TryAllConfig}})

Next ==
    \/ \E i \in First : Construct(i, FALSE)
    \/ \E i \in First, nt \in BOOLEAN, git_ok \in BOOLEAN : CreateImagesBegin(i, nt, git_ok)
    \/ \E i \in First, rc \in {0, 2}, created \in BOOLEAN, passed \in BOOLEAN :
          ProcessUnit(i, rc, created, passed)
    \/ \E i \in First : CreateImagesEnd(i)
    \/ Tick

Spec == Init /\ [][Next]_vars

\* The output directory over time: runs of one object, the clock, and tarballs
\* that are not of the configuration.
InitGC == InitWith({n \in DOMAIN Configs : Configs[n] = SmallConfig})

NextGC ==
    \/ \E i \in First : Construct(i, FALSE)
    \/ \E i \in First : CreateImagesBegin(i, TRUE, TRUE)
    \/ \E i \in First, created \in BOOLEAN : ProcessUnit(i, 0, created, TRUE)
    \/ \E i \in First : CreateImagesEnd(i)
    \/ Tick
    \/ LeftoverTarball

SpecGC == InitGC /\ [][NextGC]_vars

\* Runs over images whose tests name a program or a method that is not known.
InitTests ==
    InitWith({n \in DOMAIN Configs : Configs[n] \in {UnknownTestConfig, ProgTestConfig,
                                                   UnknownTestArmConfig}})

NextTests ==
    \/ \E i \in First : Construct(i, FALSE)
    \/ \E i \in First, nt \in BOOLEAN : CreateImagesBegin(i, nt, TRUE)
    \/ \E i \in First, created \in BOOLEAN, passed \in BOOLEAN :
          ProcessUnit(i, 0, created, passed)
    \/ \E i \in First : CreateImagesEnd(i)

SpecTests == InitTests /\ [][NextTests]_vars

\* Runs over images with rename rules.
InitRename == InitWith({n \in DOMAIN Configs : Configs[n] = RenameConfig})

NextRename ==
    \/ \E i \in First : Construct(i, FALSE)
    \/ \E i \in First : CreateImagesBegin(i, TRUE, TRUE)
    \/ \E i \in First, created \in BOOLEAN : ProcessUnit(i, 0, created, TRUE)
    \/ \E i \in First : CreateImagesEnd(i)
    \/ Tick

SpecRename == InitRename /\ [][NextRename]_vars

\* Runs and sign calls, with and without a key.
InitSign == InitWith({n \in DOMAIN Configs : Configs[n] \in SignConfigs})

NextSign ==
    \/ \E i \in First : Construct(i, FALSE)
    \/ \E i \in First : CreateImagesBegin(i, TRUE, TRUE)
    \/ \E i \in First : ProcessUnit(i, 0, TRUE, TRUE)
    \/ \E i \in First : CreateImagesEnd(i)
    \/ \E i \in First, failing \in 0..(2 * Len(Resolve[cfg].dirs[FALSE])) : Sign(i, failing)

SpecSign == InitSign /\ [][NextSign]_vars

\* Objects with and without a directory of built images, one after the other.
InitBuilt == InitWith({n \in DOMAIN Configs : Configs[n] = SmallConfig})

NextBuilt ==
    \/ \E i \in Instances, built \in BOOLEAN : Construct(i, built)
    \/ \E i \in Instances : Destroy(i)
    \/ \E i \in Instances : CreateImagesBegin(i, TRUE, TRUE)
    \/ \E i \in Instances : ProcessUnit(i, 0, TRUE, TRUE)
    \/ \E i \in Instances : CreateImagesEnd(i)
    \/ PrebuiltImage

SpecBuilt == InitBuilt /\ [][NextBuilt]_vars

\* The build fragment over the runs of objects that come and go, with a checkout that
\* may hold a fragment already and a git that may fail.
FragmentRecords == {NoRecord, [images |-> <<"rootfs">>], [state |-> "disabled"]}

InitFragment ==
    InitOf({n \in DOMAIN Configs :
               Configs[n] \in {FragmentConfig, CollidingConfig, BrandingConfig}},
           FragmentRecords)

NextFragment ==
    \/ \E i \in Instances, built \in BOOLEAN : Construct(i, built)
    \/ \E i \in Instances : Destroy(i)
    \/ \E i \in Instances, git_ok \in BOOLEAN : CreateImagesBegin(i, TRUE, git_ok)
    \/ \E i \in Instances, created \in BOOLEAN : ProcessUnit(i, 0, created, TRUE)
    \/ \E i \in Instances : CreateImagesEnd(i)
    \/ StaleFragment

SpecFragment == InitFragment /\ [][NextFragment]_vars

\* Publishing followed by the configured commands, where every command may fail.
InitAfterSync == InitWith({n \in DOMAIN Configs : Configs[n] \in AfterSyncConfigs})

NextAfterSync ==
    \/ \E i \in First : Construct(i, FALSE)
    \/ \E i \in First : CreateImagesBegin(i, TRUE, TRUE)
    \/ \E i \in First, created \in BOOLEAN : ProcessUnit(i, 0, created, TRUE)
    \/ \E i \in First : CreateImagesEnd(i)
    \/ \E i \in First,
          failing \in 0..(Len(Resolve[cfg].pairs[FALSE]) + Len(after_sync_list(Config))) :
          Sync(i, failing)

SpecAfterSync == InitAfterSync /\ [][NextAfterSync]_vars

\* The cache over the runs of one object, for configurations in which two units have
\* the same cache file name and for one in which no two units have.
InitCache ==
    InitWith({n \in DOMAIN Configs :
                 Configs[n] \in {SameBasenameConfig, CollidingConfig, SmallConfig}})

NextCache ==
    \/ \E i \in First : Construct(i, FALSE)
    \/ \E i \in First : CreateImagesBegin(i, TRUE, TRUE)
    \/ \E i \in First, created \in BOOLEAN : ProcessUnit(i, 0, created, TRUE)
    \/ \E i \in First : CreateImagesEnd(i)
    \/ Tick

SpecCache == InitCache /\ [][NextCache]_vars

\* Publishing the units of one run after the other, for configurations where two units
\* have the same publish path and for one where no two units have.
InitPaths ==
    InitWith({n \in DOMAIN Configs :
                 Configs[n] \in {RenameToConfig, DupKindsConfig, BaseConfig}})

NextPaths ==
    \/ \E i \in First : Construct(i, FALSE)
    \/ \E i \in First : CreateImagesBegin(i, TRUE, TRUE)
    \/ \E i \in First, created \in BOOLEAN : ProcessUnit(i, 0, created, TRUE)
    \/ \E i \in First : CreateImagesEnd(i)
    \/ Tick

SpecPaths == InitPaths /\ [][NextPaths]_vars

\* Runs between which the publish directories receive checksums, signatures and
\* external files.
InitClear ==
    InitWith({n \in DOMAIN Configs : Configs[n] \in {KeyConfig, KeyBothConfig}})

NextClear ==
    \/ \E i \in First : Construct(i, FALSE)
    \/ \E i \in First : CreateImagesBegin(i, TRUE, TRUE)
    \/ \E i \in First, created \in BOOLEAN : ProcessUnit(i, 0, created, TRUE)
    \/ \E i \in First : CreateImagesEnd(i)
    \/ \E i \in First, failing \in 0..(2 * Len(Resolve[cfg].dirs[FALSE])) : Sign(i, failing)
    \/ \E i \in First, dir \in Range(Resolve[cfg].dirs[FALSE]) : ExternalFile(i, dir)

SpecClear == InitClear /\ [][NextClear]_vars

\* Several objects on one data directory: construction, destruction and runs.
InitLock == InitWith({n \in DOMAIN Configs : Configs[n] = SmallConfig})

NextLock ==
    \/ \E i \in Instances : Construct(i, FALSE)
    \/ \E i \in Instances : Destroy(i)
    \/ \E i \in Instances, nt \in BOOLEAN, git_ok \in BOOLEAN : CreateImagesBegin(i, nt, git_ok)
    \/ \E i \in Instances, rc \in {0, 2}, created \in BOOLEAN, passed \in BOOLEAN :
          ProcessUnit(i, rc, created, passed)
    \/ \E i \in Instances : CreateImagesEnd(i)

SpecLock == InitLock /\ [][NextLock]_vars

\* One object and its create_images runs over matrices with exclusions, several
\* images and kinds, a repeated kind, and no unit at all.
InitMatrix ==
    InitWith({n \in DOMAIN Configs :
                 Configs[n] \in {MatrixConfig, DupKindsConfig, EmptyConfig}})

NextMatrix ==
    \/ \E i \in First : Construct(i, FALSE)
    \/ \E i \in First, git_ok \in BOOLEAN : CreateImagesBegin(i, TRUE, git_ok)
    \/ \E i \in First, rc \in {0, 2}, created \in BOOLEAN :
          ProcessUnit(i, rc, created, TRUE)
    \/ \E i \in First : CreateImagesEnd(i)

SpecMatrix == InitMatrix /\ [][NextMatrix]_vars

\* One object, its create_images runs and its sync calls, for the four shapes of the
\* remote template and the values of no_delete.
InitPublish == InitWith({n \in DOMAIN Configs : Configs[n] \in PublishConfigs})

NextPublish ==
    \/ \E i \in First : Construct(i, FALSE)
    \/ \E i \in First : CreateImagesBegin(i, TRUE, TRUE)
    \/ \E i \in First, created \in BOOLEAN : ProcessUnit(i, 0, created, TRUE)
    \/ \E i \in First : CreateImagesEnd(i)
    \/ \E i \in First, failing \in 0..Len(Resolve[cfg].pairs[FALSE]) : Sync(i, failing)
    \/ \E n \in DOMAIN Resolve[cfg].pairs[FALSE] :
          ForeignUpload(Resolve[cfg].pairs[FALSE][n][2])

SpecPublish == InitPublish /\ [][NextPublish]_vars

\* One object constructed from documents that lack required keys or have a malformed
\* value, with and without an override, and its create_images runs.
InitStartup == InitWith({n \in DOMAIN Configs : Configs[n] \in StartupConfigs})

NextStartup ==
    \/ \E i \in First : Construct(i, FALSE)
    \/ \E i \in First : Destroy(i)
    \/ \E i \in First, git_ok \in BOOLEAN : CreateImagesBegin(i, TRUE, git_ok)
    \/ \E i \in First, created \in BOOLEAN : ProcessUnit(i, 0, created, TRUE)
    \/ \E i \in First : CreateImagesEnd(i)

SpecStartup == InitStartup /\ [][NextStartup]_vars

\* The constraint resolver applied to every constraint record considered, for the
\* images and branches of a configuration.
InitItems ==
    InitOf({n \in DOMAIN Configs : Configs[n] = MatrixConfig}, ConstraintRecords)

NextItems ==
    \/ \E image \in Range(images(Config)), branch \in Range(branches(Config)) :
          packages(image, branch)
    \/ \E image \in Range(images(Config)), branch \in Range(branches(Config)) :
          enabled_services(image, branch)
    \/ \E image \in Range(images(Config)), branch \in Range(branches(Config)) :
          disabled_services(image, branch)

SpecItems == InitItems /\ [][NextItems]_vars


\* ---------------------------------------------------------------- properties
\* The publish path of unit k of object i
Path(i, k) == Resolve[cfg].image_path[no_build[i]][k]

\* The (target, arch) pair a BuildError for unit k carries
ErrorPair(k) == <<Resolve[cfg].full_target[k], Units[k].arch>>

Published(i, k) == Path(i, k) \in DOMAIN images_fs

\* The (target, arch) pairs of the units that failed in the running or last call of
\* object i, in matrix order
RECURSIVE FailedUpTo(_, _)
FailedUpTo(i, k) ==
    IF k = 0 THEN <<>>
    ELSE IF ustate[i][k] = "failed"
         THEN Append(FailedUpTo(i, k - 1), ErrorPair(k))
         ELSE FailedUpTo(i, k - 1)

FailedOf(i) == FailedUpTo(i, Len(ustate[i]))

\* The loop of the running or last call of object i reached the end of the matrix
ReachedEnd(i) == ustate[i] # <<>> /\ idx[i] = Len(Units) + 1

\* C1: under failFast a failing unit makes create_images raise the BuildError of that
\* unit at once: the failed unit is the last one the builder was invoked for, and every
\* later unit is still pending and unpublished.
FailFastAborts ==
    \A i \in Instances : \A k \in DOMAIN ustate[i] :
        (~Config.try_build_all /\ ustate[i][k] = "failed") =>
            /\ pc[i] = "idle"
            /\ last[i] = BuildError(ErrorPair(k)[1], ErrorPair(k)[2])
            /\ lastBuild.inst = i /\ lastBuild.k = k
            /\ \A m \in DOMAIN ustate[i] :
                  m > k => ustate[i][m] = "pending" /\ ~Published(i, m)

FailFastWitness ==
    \E i \in Instances :
        /\ ~Config.try_build_all
        /\ ustate[i] = <<"succeeded", "failed", "pending">>
        /\ last[i].type = "BuildError"

\* C2 as stated: under tryAll every run with a failing unit attempts every unit and
\* ends with MultipleBuildErrors holding every failed unit, every other unit published.
TryAllAlwaysCompletes ==
    \A i \in Instances :
        (Config.try_build_all /\ pc[i] = "idle"
            /\ \E k \in DOMAIN ustate[i] : ustate[i][k] = "failed") =>
            /\ last[i].type = "MultipleBuildErrors"
            /\ \A k \in DOMAIN ustate[i] :
                  /\ ustate[i][k] # "pending"
                  /\ ustate[i][k] = "failed" => ErrorPair(k) \in Range(last[i].errors)
                  /\ ustate[i][k] # "failed" => Published(i, k)

\* C2 amended: under tryAll a failing build never raises BuildError, it is recorded and
\* the loop goes on; a run that reaches the end of the matrix with a failed unit raises
\* MultipleBuildErrors, which is raised only there, holds every failed unit, and finds
\* every unit that did not fail published.
TryAllAggregates ==
    \A i \in Instances :
        Config.try_build_all =>
            /\ last[i].type # "BuildError"
            /\ \A k \in DOMAIN ustate[i] :
                  ustate[i][k] = "failed" =>
                      idx[i] > k /\ ErrorPair(k) \in Range(build_errors[i])
            /\ (pc[i] = "idle" /\ ReachedEnd(i) /\ FailedOf(i) # <<>>) =>
                  last[i].type = "MultipleBuildErrors"
            /\ last[i].type = "MultipleBuildErrors" =>
                  /\ pc[i] = "idle" /\ ReachedEnd(i)
                  /\ \A k \in DOMAIN ustate[i] :
                        /\ ustate[i][k] # "pending"
                        /\ ustate[i][k] = "failed" => ErrorPair(k) \in Range(last[i].errors)
                        /\ ustate[i][k] # "failed" => Published(i, k)

TryAllWitness ==
    \E i \in Instances :
        /\ Config.try_build_all
        /\ last[i].type = "MultipleBuildErrors"
        /\ ustate[i] = <<"failed", "succeeded", "failed">>
        /\ Published(i, 2)

\* C3: under tryAll a call that reaches the end of the matrix raises
\* MultipleBuildErrors iff a unit failed during that call, and the error carries exactly
\* the pairs of the units that failed during that call, in matrix order.
TryAllErrorsOfThisCall ==
    \A i \in Instances :
        (Config.try_build_all /\ pc[i] = "idle" /\ ReachedEnd(i)) =>
            /\ last[i].type = "MultipleBuildErrors" <=> FailedOf(i) # <<>>
            /\ last[i].type = "MultipleBuildErrors" => last[i].errors = FailedOf(i)

\* C4: at most one initialized object exists, it is the holder of the lock; an object
\* constructed while the lock is held fails with 'already running', changes no file and
\* never runs create_images.
LockExclusion ==
    /\ [](\A i, j \in Instances :
            (life[i] = "live" /\ initialized[i] /\ life[j] = "live" /\ initialized[j])
                => i = j /\ flock_holder = i)
    /\ [](\A i \in Instances :
            (life[i] = "live" /\ ~initialized[i]) =>
                /\ last[i] = Error("already running")
                /\ pc[i] = "idle" /\ ustate[i] = <<>>
                /\ flock_holder # i)
    /\ [][\A i \in Instances :
            (life[i] = "unborn" /\ life'[i] = "live" /\ flock_holder # 0) =>
                /\ ~initialized'[i]
                /\ last'[i] = Error("already running")
                /\ UNCHANGED <<out_dir, images_fs, fragment, lastBuild, flock_holder>>]_vars

LockWitness ==
    \E i, j \in Instances :
        /\ initialized[i] /\ pc[i] = "loop" /\ idx[i] = 2
        /\ life[j] = "live" /\ ~initialized[j]
        /\ last[j] = Error("already running")

CacheHitPublished ==
    \A i \in Instances :
        /\ \A k \in DOMAIN ustate[i] :
              ustate[i][k] = "skipped" =>
                  /\ ~(lastBuild.inst = i /\ lastBuild.k = k)
                  /\ idx[i] > k => Published(i, k)
        /\ (ustate[i] # <<>> /\ last[i] = Returned) =>
              \A k \in DOMAIN ustate[i] :
                  ustate[i][k] \in {"skipped", "succeeded"} /\ Published(i, k)

CacheHitWitness ==
    \E i \in Instances :
        /\ last[i] = Returned
        /\ ustate[i] = <<"skipped", "succeeded", "skipped">>

\* C7: a builder invocation that exits with status zero and leaves no output file makes
\* its unit a failed one: the BuildError is recorded (tryAll) or raised (failFast) and
\* nothing is published for the unit.
ZeroExitWithoutFileFails ==
    (lastBuild.inst # 0 /\ lastBuild.rc = 0 /\ ~lastBuild.created) =>
        LET i == lastBuild.inst
            k == lastBuild.k
        IN  /\ ustate[i][k] = "failed"
            /\ Config.try_build_all => ErrorPair(k) \in Range(build_errors[i])
            /\ ~Config.try_build_all =>
                  last[i] = BuildError(ErrorPair(k)[1], ErrorPair(k)[2])
            /\ ~Published(i, k)

ZeroExitWitness ==
    /\ lastBuild.inst # 0 /\ lastBuild.rc = 0 /\ ~lastBuild.created
    /\ Config.try_build_all
    /\ pc[lastBuild.inst] = "loop"

\* C8: a builder invocation that exits with a non-zero status makes its unit a failed
\* one, whether or not the output file exists afterwards.
NonZeroExitFails ==
    (lastBuild.inst # 0 /\ lastBuild.rc # 0) =>
        LET i == lastBuild.inst
            k == lastBuild.k
        IN  /\ ustate[i][k] = "failed"
            /\ \/ ErrorPair(k) \in Range(build_errors[i])
               \/ last[i] = BuildError(ErrorPair(k)[1], ErrorPair(k)[2])

\* C9: a failing test ends create_images at once with an error under both failure
\* policies: every later unit is still pending, unpublished and untested.
TestFailureAborts ==
    \A i \in Instances : \A k \in DOMAIN tested[i] :
        tested[i][k] = "failed" =>
            /\ pc[i] = "idle"
            /\ last[i] = TestFailed(Path(i, k))
            /\ idx[i] = k
            /\ \A m \in DOMAIN ustate[i] :
                  m > k => /\ ustate[i][m] = "pending"
                           /\ tested[i][m] = "no"
                           /\ ~Published(i, m)

TestFailureWitness ==
    \E i \in Instances :
        /\ Config.try_build_all
        /\ Len(ustate[i]) > 1
        /\ tested[i][1] = "failed"
        /\ last[i].type = "Error"

\* C10: an artifact that failed its test is not present in a publish directory.
FailedArtifactNotPublished ==
    \A i \in Instances : \A k \in DOMAIN tested[i] :
        tested[i][k] = "failed" => ~Published(i, k)

\* The units the running or last call of object i has processed, in the order of
\* processing
NumProcessed(i) == Cardinality({k \in DOMAIN ustate[i] : ustate[i][k] # "pending"})

ProcessedUnits(i) == [k \in 1..NumProcessed(i) |-> Units[k]]

\* C11: the units processed by one create_images run never contain the same
\* (branch, image, arch, kind) tuple twice.
NoUnitTwice ==
    \A i \in Instances : \A k, m \in DOMAIN ProcessedUnits(i) :
        k # m => ProcessedUnits(i)[k] # ProcessedUnits(i)[m]

\* The tuples the configuration allows
AllowedUnits(c) ==
    {u \in [branch : Range(branches(c)), image : Range(images(c)),
            arch : Range(all_arches(c)),
            kind : UNION {Range(kinds_by_image(c, m)) : m \in Range(images(c))}] :
        /\ u.branch \notin image_record(c, u.image).exclude_branches
        /\ u.arch \notin image_record(c, u.image).exclude_arches
        /\ u.arch \in Range(arches_by_branch(c, u.branch))
        /\ u.kind \in Range(kinds_by_image(c, u.image))}

\* The first position of x in the list s
Position(s, x) == CHOOSE n \in DOMAIN s : s[n] = x /\ \A m \in 1..(n - 1) : s[m] # x

\* Where a unit stands in configuration order: branch, image, arch, kind
OrderKey(c, u) ==
    <<Position(branches(c), u.branch), Position(images(c), u.image),
      Position(arches_by_branch(c, u.branch), u.arch),
      Position(kinds_by_image(c, u.image), u.kind)>>

LexLeq(a, b) ==
    \/ a = b
    \/ \E n \in DOMAIN a : a[n] < b[n] /\ \A m \in 1..(n - 1) : a[m] = b[m]

Returned_vim == "vim" \in Range(items_result.resolved)

Called == items_result.resolver # "none"

\* C13: an item whose exclude_images contains the image, or whose exclude_branches
\* contains the branch, is not returned, whatever else its record says.
ExclusionWins ==
    (Called /\ items_constraints # NoRecord) =>
        /\ items_result.image \in Range(Get(items_constraints, "exclude_images", <<>>))
              => ~Returned_vim
        /\ items_result.branch \in Range(Get(items_constraints, "exclude_branches", <<>>))
              => ~Returned_vim

ExclusionWitness ==
    /\ Called /\ items_constraints # NoRecord
    /\ items_result.resolver = "enabled_services"
    /\ DOMAIN items_constraints = {"images", "exclude_images", "state"}
    /\ items_constraints.images = <<"rootfs">> /\ items_constraints.state = "enabled"
    /\ items_result.image = "rootfs"
    /\ ~Returned_vim

\* The last resolver call returned the item "gosu", which has no constraint record
Returned_gosu == "gosu" \in Range(items_result.resolved)

\* C14 as stated: an item with no constraint record is returned by every resolver call.
NoRecordAlwaysReturned == Called => Returned_gosu

\* C14 amended: an item with no constraint record has the default state; it is
\* returned for every (image, branch) pair among the packages and among the enabled
\* services, and for no pair among the disabled services.
NoRecordReturnedByDefault ==
    Called =>
        (Returned_gosu <=> items_result.resolver \in {"packages", "enabled_services"})

NoRecordWitness ==
    /\ items_result.resolver = "enabled_services"
    /\ items_result.image = "cloud" /\ items_result.branch = <<"S", "i", "s">>
    /\ Returned_gosu
    /\ ~Returned_vim

\* The state of an item matches the state prefix of a resolver
StateMatches(resolver, state) ==
    CASE resolver = "packages" -> TRUE
      [] resolver = "enabled_services" -> state \in {"enabled", "enable"}
      [] resolver = "disabled_services" -> state = "disabled"

\* C15: an item that is not excluded is returned iff the image is in its images
\* allow-list, the branch is in its branches allow-list (each all when absent) and its
\* state matches the state prefix; stated for records made of the fields images,
\* branches, exclude_images, exclude_branches and state.
AllowListsDecide ==
    (/\ Called /\ items_constraints # NoRecord
     /\ "branch" \notin DOMAIN items_constraints
     /\ items_result.image \notin Range(Get(items_constraints, "exclude_images", <<>>))
     /\ items_result.branch \notin Range(Get(items_constraints, "exclude_branches", <<>>)))
    => (Returned_vim <=>
          /\ items_result.image
                \in Range(Get(items_constraints, "images", images(Config)))
          /\ items_result.branch
                \in Range(Get(items_constraints, "branches", branches(Config)))
          /\ StateMatches(items_result.resolver,
                          Get(items_constraints, "state",
                              IF items_result.resolver = "packages"
                              THEN "" ELSE service_default_state)))

\* The placeholders a remote template has
HasBranch(c) == "{branch}" \in Range(c.remote)

HasArch(c) == "{arch}" \in Range(c.remote)

\* The partitions of a configuration: <<branch, arch>> with <<>> or "" where the
\* template does not partition
Partitions(c) ==
    {<<IF HasBranch(c) THEN b.name ELSE <<>>, IF HasArch(c) THEN a ELSE "">> :
        <<b, a>> \in {ba \in Range(c.branches) \X {X86, ARM} : ba[2] \in Range(ba[1].arches)}}

\* The local directory and the remote of a partition
PartitionPair(c, built, part) ==
    <<base_images_dir(built)
          \o (IF HasBranch(c) THEN <<Join(part[1])>> ELSE <<>>)
          \o (IF HasArch(c) THEN <<part[2]>> ELSE <<>>),
      format_remote(c, part[1], part[2])>>

\* The last sync call issued all its rsync commands and each exited with status zero
SyncReturned == rsync_log # <<>> /\ \A n \in DOMAIN rsync_log : rsync_log[n].rc = 0

\* C16: the resolver returns one (local directory, remote) pair per partition of the
\* template, each once, the remote being the template with the partition's branch and
\* arch substituted; a sync that returns has issued one rsync per pair.
OnePairPerPartition ==
    \A built \in BOOLEAN :
        LET pairs == Resolve[cfg].pairs[built]
        IN  /\ Range(pairs) = {PartitionPair(Config, built, part) : part \in Partitions(Config)}
            /\ Len(pairs) = Cardinality(Partitions(Config))
            /\ ~HasBranch(Config) /\ ~HasArch(Config) => Len(pairs) = 1
            /\ HasBranch(Config) /\ ~HasArch(Config) => Len(pairs) = Len(Config.branches)
            /\ \A i \in Instances :
                  (built = no_build[i] /\ SyncReturned) =>
                      /\ Len(rsync_log) = Len(pairs)
                      /\ \A n \in DOMAIN pairs :
                            /\ rsync_log[n].src = pairs[n][1]
                            /\ rsync_log[n].remote = pairs[n][2]

OnePairWitness ==
    \E i \in Instances :
        /\ Document = BothConfig
        /\ life[i] = "live" /\ SyncReturned
        /\ Len(rsync_log) = 3
        /\ rsync_log[2] = [src |-> <<"data", "images", "p9", "aarch64">>,
                           remote |-> "/d/p9/aarch64", delete |-> FALSE, rc |-> 0]
        /\ \E q \in DOMAIN remote_fs : q[1] = "/d/p9/aarch64" /\ remote_fs[q] # ForeignFile

\* C17: the directory create_images places a unit's artifact in is one of the
\* directories of the resolver, and the remote paired with it is the template resolved
\* for the unit's branch and arch: every published file lies directly in such a
\* directory, and a sync that returned has put it at that remote.
SamePartitioning ==
    /\ \A built \in BOOLEAN : \A b \in Range(Config.branches) : \A a \in Range(b.arches) :
          <<images_dir(Config, built, b.name, a), format_remote(Config, b.name, a)>>
              \in Range(Resolve[cfg].pairs[built])
    /\ \A i \in Instances : \A k \in DOMAIN ustate[i] :
          Published(i, k) =>
              LET u == Units[k]
                  dir == SubSeq(Path(i, k), 1, Len(Path(i, k)) - 1)
              IN  /\ dir = images_dir(Config, no_build[i], u.branch, u.arch)
                  /\ \E n \in DOMAIN Resolve[cfg].pairs[no_build[i]] :
                        /\ Resolve[cfg].pairs[no_build[i]][n][1] = dir
                        /\ Resolve[cfg].pairs[no_build[i]][n][2]
                              = format_remote(Config, u.branch, u.arch)
                        /\ Len(rsync_log) >= n =>
                              /\ rsync_log[n].src = dir
                              /\ rsync_log[n].remote = format_remote(Config, u.branch, u.arch)

SamePartitioningWitness ==
    \E i \in Instances :
        /\ Document = ByArchConfig
        /\ SyncReturned /\ Len(rsync_log) = 2
        /\ Published(i, 2)
        /\ <<"/d/aarch64", "alt-p9-rootfs-aarch64.tar">> \in DOMAIN remote_fs
        /\ <<"/d/x86_64", "alt-sis-rootfs-x86_64.tar">> \in DOMAIN remote_fs

\* The files that exist only at the remote
ForeignFiles == {q \in DOMAIN remote_fs : remote_fs[q] = ForeignFile}

\* no_delete as the configuration document gives it
ConfiguredNoDelete == ~("no_delete" \in DOMAIN Config /\ Config.no_delete = FALSE)

\* C20: every rsync of sync is asked to delete iff no_delete is false; with no_delete
\* true or not configured, a file that exists only at the remote is still there,
\* unchanged, after every step.
DeleteOnlyWhenAsked ==
    /\ [](\A n \in DOMAIN rsync_log : rsync_log[n].delete <=> ~ConfiguredNoDelete)
    /\ [][ConfiguredNoDelete =>
             \A q \in ForeignFiles : q \in DOMAIN remote_fs' /\ remote_fs'[q] = remote_fs[q]]_vars

DeleteWitness ==
    \E i \in Instances :
        /\ "no_delete" \notin DOMAIN Document
        /\ life[i] = "live" /\ SyncReturned
        /\ ForeignFiles # {}
        /\ \E q \in DOMAIN remote_fs : q \notin ForeignFiles

\* The required keys that neither the document nor the override has, in the order
\* remote, images, branches
MissingKeys ==
    {key \in {"remote", "images", "branches"} :
        /\ key \notin DOMAIN Document
        /\ key \notin DOMAIN Get(Document, "config_override", <<>>)}

FirstMissingKey ==
    IF "remote" \in MissingKeys THEN "remote"
    ELSE IF "images" \in MissingKeys THEN "images" ELSE "branches"

\* The value the object works with for a key is the one of the override
UsesOverride(key) ==
    key \in DOMAIN Get(Document, "config_override", <<>>)
        => Config[key] = Document.config_override[key]

\* C18: constructing a CB from a document that lacks remote, images or branches fails
\* with an error naming a missing key (the first one missing) unless the override
\* supplies the key; with every required key in the document or the override the
\* construction does not fail on a required key, and the override's values are used.
RequiredKeys ==
    \A i \in Instances :
        (life[i] = "live" /\ DOMAIN Document["rebuild_after"] \subseteq TimedeltaKeys) =>
            IF MissingKeys # {}
            THEN /\ ~initialized[i]
                 /\ last[i] = Error("Required parameter '" \o FirstMissingKey
                                        \o "' does not set in config")
            ELSE /\ initialized[i]
                 /\ last[i].type # "Error" \/ ustate[i] # <<>>
                 /\ UsesOverride("remote") /\ UsesOverride("images")
                 /\ UsesOverride("branches")

RequiredKeysWitness ==
    \E i \in Instances :
        /\ Document = OverrideBranchesConfig
        /\ initialized[i] /\ last[i] = Returned
        /\ Len(ustate[i]) = 1 /\ ustate[i][1] = "succeeded"
        /\ Units[1].branch = <<"S", "i", "s">>

\* The call of object i ended on an error of the configuration: a required key
\* missing, a malformed rebuild_after or a malformed image size
ConfigurationError(i) ==
    \/ /\ last[i].type = "Error"
       /\ last[i].msg \in ({Parsed[n].error : n \in DOMAIN Parsed} \ {NoError})
                              \cup {"Bad size format"}
    \/ last[i] = ValueError

\* C19: every configuration error, a malformed rebuild_after and a malformed image
\* size included, is raised at startup: when a call ends on one, no build fragment
\* has been regenerated, no publish directory cleared and the builder invoked for
\* no unit.
ConfigErrorsAtStartup ==
    \A i \in Instances :
        ConfigurationError(i) =>
            /\ ~initialized[i]
            /\ runs = 0
            /\ fragment = 0
            /\ lastBuild = NoBuild
            /\ out_dir = EmptyFS

\* A step in which create_images of object i returns normally
ReturnsNormally(i) == pc[i] = "loop" /\ pc'[i] = "idle" /\ last'[i] = Returned

\* C21: when create_images returns normally no file of the output directory is older
\* than rebuild_after, whether a unit of the configuration names it or not; and a file
\* leaves the output directory only as the stale tarball of the unit being processed or
\* in the step that ends the run, after the last unit.
OldTarballsRemoved ==
    [][\A i \in Instances :
        /\ ReturnsNormally(i) =>
              /\ idx[i] = Len(Units) + 1
              /\ \A k \in DOMAIN ustate[i] : ustate[i][k] # "pending"
              /\ \A tb \in DOMAIN out_dir' :
                     now' - out_dir'[tb].mtime <= Config.rebuild_after
        /\ \A tb \in DOMAIN out_dir \ DOMAIN out_dir' :
              \E j \in Instances :
                  /\ pc[j] = "loop"
                  /\ \/ idx[j] <= Len(Units) /\ tb = Resolve[cfg].tarball[idx[j]]
                     \/ ReturnsNormally(j)]_vars

\* A run returned normally and the tarball that its first unit built is gone
OldTarballsWitness ==
    \E i \in Instances :
        /\ last[i] = Returned /\ pc[i] = "idle"
        /\ ustate[i] # <<>> /\ ustate[i][1] = "succeeded"
        /\ Resolve[cfg].tarball[1] \notin DOMAIN out_dir
        /\ LeftoverName \in DOMAIN out_dir

\* The tests of unit k name a method that image_tests.test does not know
HasUnknownMethod(k) ==
    \E n \in DOMAIN Resolve[cfg].tests[k] :
        test_method(Resolve[cfg].tests[k][n]) = "undefined"

\* C22: a test descriptor with an unknown method is fatal for every unit it is applied
\* to, whatever the architecture of the unit: once such a unit has been published in a
\* run with tests, the run has ended at that unit with the error of the unknown method.
UnknownMethodFatal ==
    \A i \in Instances : \A k \in DOMAIN ustate[i] :
        (HasUnknownMethod(k) /\ ~no_tests[i] /\ Published(i, k)) =>
            /\ pc[i] = "idle"
            /\ idx[i] = k
            /\ last[i].type = "Exception"

\* The name under which the artifact of unit k of object i is published
PublishedName(i, k) == Path(i, k)[Len(Path(i, k))]

\* The name that the rule of each image of RenameConfig has to give on branch Sis
\* and x86_64
ExpectedName(image) ==
    CASE image = "plain" -> "alt-sis-plain-x86_64.tar"
      [] image = "byregex" -> "ALT-sis-byregex-x86_64.tar"
      [] image = "byprog" -> "lxd.tar.xz"
      [] image = "byecho" -> "new-alt-sis-byecho-x86_64.tar"
      [] image = "byto" -> "docker.tar.xz"
      [] image = "regexprog" -> "alt_sis_regexprog_x86_64.tar"
      [] image = "progto" -> "new-alt-sis-progto-x86_64.tar"

\* C23: one strategy per rename rule, chosen by the keys of the rule: with regex and
\* to the default name with the matches replaced, else with prog the trimmed output
\* of the program called with the default name, else to; without a rule the default
\* name alt-<lowercased branch>-<image>-<arch>.<kind>.  Every artifact that a run
\* publishes is at that name.
RenameStrategy ==
    \A i \in Instances : \A k \in DOMAIN ustate[i] :
        ustate[i][k] = "succeeded" =>
            /\ PublishedName(i, k) = ExpectedName(Units[k].image)
            /\ (last[i].type \in {"running", "ok"} /\ life[i] = "live") => Published(i, k)

RenameWitness ==
    \E i \in Instances :
        /\ Document = RenameConfig
        /\ last[i] = Returned
        /\ DOMAIN ustate[i] = DOMAIN Units
        /\ \A k \in DOMAIN Units : ustate[i][k] = "succeeded" /\ Published(i, k)
        /\ \E k \in DOMAIN Units : PublishedName(i, k) = "new-alt-sis-byecho-x86_64.tar"

\* The document or the override has a signing key
HasKey == "key" \in DOMAIN Document \/ "key" \in DOMAIN Get(Document, "config_override", <<>>)

KeyMissing == Error("Pass key to config file for sign")

\* The key that gpg2 has to be given: the one of the override (0, and 255 written FF)
\* before the one of the document
ExpectedKey ==
    CASE Document = OverrideKeyConfig -> "0"
      [] Document = KeyBothConfig -> "FF"
      [] Document = KeyConfig -> "ABCD"

\* The checksum manifests and signatures in the publish directories
SignFiles(fs) == {q \in DOMAIN fs : fs[q].by.kind \in {"checksum", "signature"}}

BuildSkipped == Error("build stage should be skipped")

\* C25: create_images of an object that was created with built_images_dir ends with an
\* error and changes neither the publish directories (that directory included) nor
\* the fragment nor the output directory, and the builder is not invoked; such an
\* object is never inside the loop of create_images.
SkippedBuildChangesNothing ==
    /\ [](\A i \in Instances : no_build[i] => pc[i] = "idle")
    /\ [][\A i \in Instances :
            (runs' # runs /\ life[i] = "live" /\ initialized[i] /\ no_build[i]) =>
                /\ last'[i] = BuildSkipped
                /\ images_fs' = images_fs
                /\ fragment' = fragment
                /\ out_dir' = out_dir
                /\ lastBuild' = NoBuild
                /\ pc'[i] = "idle"]_vars

\* The call failed with built images in place and tarballs of an earlier object in
\* the output directory
SkippedBuildWitness ==
    \E i \in Instances :
        /\ no_build[i] /\ life[i] = "live" /\ last[i] = BuildSkipped
        /\ Append(base_images_dir(TRUE), PrebuiltName) \in DOMAIN images_fs
        /\ out_dir # EmptyFS

\* The call of object i reached the end of the matrix and ended there
RunCompleted(i) ==
    pc[i] = "idle" /\ ReachedEnd(i) /\ last[i].type \in {"ok", "MultipleBuildErrors"}

\* C26: in a run every unit leaves "pending" at most once, when the loop is at it, for
\* one of "skipped", "succeeded" and "failed"; the builder is invoked in that step, for
\* that unit, iff the unit does not become "skipped", and in no other step; a run that
\* is not aborted ends with no unit pending.
UnitStateMachine ==
    /\ [](\A i \in Instances : RunCompleted(i) =>
              \A k \in DOMAIN ustate[i] : ustate[i][k] \in {"skipped", "succeeded", "failed"})
    /\ [][\A i \in Instances :
            /\ \A k \in DOMAIN ustate[i] \cap DOMAIN ustate'[i] :
                  ustate'[i][k] # ustate[i][k] =>
                      \/ /\ runs' = runs
                         /\ ustate[i][k] = "pending" /\ pc[i] = "loop" /\ idx[i] = k
                         /\ ustate'[i][k] \in {"skipped", "succeeded", "failed"}
                         /\ IF ustate'[i][k] = "skipped"
                            THEN lastBuild' = lastBuild
                            ELSE lastBuild' # lastBuild /\ lastBuild'.inst = i
                                     /\ lastBuild'.k = k
                      \/ runs' # runs /\ ustate'[i][k] = "pending"
            /\ (lastBuild' # lastBuild /\ lastBuild'.inst = i) =>
                  /\ lastBuild'.k = idx[i]
                  /\ ustate[i][idx[i]] = "pending"
                  /\ ustate'[i][idx[i]] \in {"succeeded", "failed"}]_vars

\* A tryAll run that was not aborted, with a unit of each final state
UnitStateWitness ==
    \E i \in Instances :
        /\ Config.try_build_all /\ RunCompleted(i)
        /\ ustate[i] = <<"skipped", "failed", "succeeded">>
        /\ lastBuild.inst = i /\ lastBuild.k = 3

\* C27: a create_images run that enters the unit loop has, in the step that enters it,
\* written the build fragment in full (the rules generated from the configuration and
\* nothing of the previous fragment) with no builder invoked yet in the run; while an
\* object is in its unit loop the fragment is complete and no step modifies it; the
\* builder is invoked only by an object that is in its unit loop.
FragmentRegenerated ==
    [][/\ \A i \in Instances :
            /\ (pc[i] = "idle" /\ pc'[i] = "loop") =>
                  /\ fragment' = i
                  /\ fragment_rules' = generated_rules(Config)
                  /\ lastBuild' = NoBuild
            /\ pc[i] = "loop" =>
                  /\ fragment = i
                  /\ fragment_rules = generated_rules(Config)
                  /\ UNCHANGED <<fragment, fragment_rules>>
       /\ (lastBuild' # lastBuild /\ lastBuild' # NoBuild) =>
             /\ lastBuild'.inst \in Instances
             /\ pc[lastBuild'.inst] = "loop"]_vars

\* The second run on a checkout, past its first builder invocation, with the fragment
\* of the configuration in place
FragmentWitness ==
    \E i \in Instances :
        /\ runs > 1 /\ pc[i] = "loop" /\ idx[i] > 1
        /\ lastBuild.inst = i /\ lastBuild.k = 1
        /\ fragment = i
        /\ fragment_rules = generated_rules(Config)
        /\ Len(fragment_rules) = Len(images(Config)) * Len(branches(Config))

\* The values of the recipes of a rule that call one function on one variable
RecipeValues(r, call, variable) ==
    LET chosen == SelectSeq(r.recipes, LAMBDA x : x.call = call /\ x.variable = variable)
    IN  [n \in DOMAIN chosen |-> chosen[n].value]

\* The place of a recipe in the order of the calls
RecipeRank(x) ==
    CASE x.call = "set" /\ x.variable = "BRANDING" -> 1
      [] x.call = "add" /\ x.variable = "BASE_PACKAGES" -> 2
      [] x.call = "add" /\ x.variable = "DEFAULT_SERVICES_ENABLE" -> 3
      [] x.call = "add" /\ x.variable = "DEFAULT_SERVICES_DISABLE" -> 4
      [] OTHER -> 0

\* What the configuration gives for an image on a branch: the explicit items of the
\* image, then the items of the section that the resolver keeps
ExplicitThenResolved(image, branch, explicit, state_re, default_state) ==
    LET re == IF state_re = "None" THEN "" ELSE state_re
        kept == SelectSeq(items_data,
                          LAMBDA item : item_included(item[2], image, branch, re,
                                                      IF default_state = "None" THEN re
                                                      ELSE default_state))
    IN  Get(image_record(Config, image), explicit, <<>>)
            \o [n \in DOMAIN kept |-> kept[n][1]]

\* C28: the fragment written by a run has one rule for each image and branch of the
\* configuration, images outermost, named by the target and the escaped branch; the
\* prerequisites are the target, the branch's prerequisites and the image's, in this
\* order; the recipes are in the order set branding, add package, add enabled service,
\* add disabled service, with set branding present iff the branding (the image's if it
\* has one, else the branch's) is not empty, and the values added are the explicit
\* items of the image followed by the resolver's, repetitions kept.
FragmentContent ==
    fragment \in Instances =>
        /\ Len(fragment_rules) = Len(images(Config)) * Len(branches(Config))
        /\ \A m \in DOMAIN images(Config), b \in DOMAIN branches(Config) :
              LET image == images(Config)[m]
                  branch == branches(Config)[b]
                  r == fragment_rules[(m - 1) * Len(branches(Config)) + b]
                  brand == IF "branding" \in DOMAIN image_record(Config, image)
                           THEN image_record(Config, image).branding
                           ELSE Get(branch_record(Config, branch), "branding", "")
              IN  /\ r.name = Join(image_record(Config, image).target) \o "_"
                                  \o Join(escape_branch(branch))
                  /\ r.prerequisites =
                        <<Join(image_record(Config, image).target)>>
                            \o Get(branch_record(Config, branch), "prerequisites", <<>>)
                            \o Get(image_record(Config, image), "prerequisites", <<>>)
                  /\ \A x \in DOMAIN r.recipes : RecipeRank(r.recipes[x]) > 0
                  /\ \A x, y \in DOMAIN r.recipes :
                        x < y => RecipeRank(r.recipes[x]) <= RecipeRank(r.recipes[y])
                  /\ RecipeValues(r, "set", "BRANDING") =
                        (IF brand = "" THEN <<>> ELSE <<brand>>)
                  /\ RecipeValues(r, "add", "BASE_PACKAGES") =
                        ExplicitThenResolved(image, branch, "packages", "None", "None")
                  /\ RecipeValues(r, "add", "DEFAULT_SERVICES_ENABLE") =
                        ExplicitThenResolved(image, branch, "services_enabled",
                                             "enabled?", service_default_state)
                  /\ RecipeValues(r, "add", "DEFAULT_SERVICES_DISABLE") =
                        ExplicitThenResolved(image, branch, "services_disabled",
                                             "disabled?", service_default_state)

\* The fragment of the configuration with two images and two branches when the
\* packages and services sections constrain nothing: the first rule has no branding
\* and repeated packages, the third has the branch's branding
FragmentContentWitness ==
    /\ Document = FragmentConfig /\ items_constraints = NoRecord
    /\ fragment \in Instances
    /\ Len(fragment_rules) = 4
    /\ fragment_rules[1] =
          [name |-> "ve/docker_p9_1",
           prerequisites |-> <<"ve/docker", "use/net", "use/repo">>,
           recipes |-> <<add_recipe("BASE_PACKAGES", "gosu"),
                         add_recipe("BASE_PACKAGES", "curl"),
                         add_recipe("BASE_PACKAGES", "curl"),
                         add_recipe("BASE_PACKAGES", "vim"),
                         add_recipe("BASE_PACKAGES", "gosu"),
                         add_recipe("DEFAULT_SERVICES_ENABLE", "vim"),
                         add_recipe("DEFAULT_SERVICES_ENABLE", "gosu"),
                         add_recipe("DEFAULT_SERVICES_DISABLE", "sshd")>>]
    /\ fragment_rules[3] =
          [name |-> "vm/cloud_p9_1",
           prerequisites |-> <<"vm/cloud", "use/net", "use/repo", "use/cloud-init">>,
           recipes |-> <<[call |-> "set", variable |-> "BRANDING",
                          value |-> "alt-starterkit"],
                         add_recipe("BASE_PACKAGES", "cloud-init"),
                         add_recipe("BASE_PACKAGES", "vim"),
                         add_recipe("BASE_PACKAGES", "gosu"),
                         add_recipe("DEFAULT_SERVICES_ENABLE", "vim"),
                         add_recipe("DEFAULT_SERVICES_ENABLE", "chronyd"),
                         add_recipe("DEFAULT_SERVICES_ENABLE", "vim"),
                         add_recipe("DEFAULT_SERVICES_ENABLE", "gosu")>>]
    /\ fragment_rules[4].name = "vm/cloud_Sis"

\* Two distinct branches of the configuration escape to the same identifier
CollidingBranches ==
    /\ Parsed[cfg].error = NoError
    /\ \E a, b \in Range(branches(Config)) : a # b /\ escape_branch(a) = escape_branch(b)

\* C29: a configuration with two distinct branch names that escape to the same rule
\* identifier is rejected when the object is constructed, so in a written fragment the
\* rules of one image for distinct branches have distinct names.
CollidingBranchesRejected ==
    /\ \A i \in Instances : (life[i] = "live" /\ CollidingBranches) => ~initialized[i]
    /\ fragment \in Instances =>
          \A m \in DOMAIN images(Config) :
              \A a, b \in DOMAIN branches(Config) :
                  a # b => fragment_rules[(m - 1) * Len(branches(Config)) + a].name
                               # fragment_rules[(m - 1) * Len(branches(Config)) + b].name

\* Units that differ in their branch only
SameButBranch(u, v) ==
    u.image = v.image /\ u.arch = v.arch /\ u.kind = v.kind /\ u.branch # v.branch

\* The file a unit is cached under: what follows the last "/" of the image's target,
\* the escaped branch, the arch and the kind
CacheName(u) ==
    Join(strip_dirs(image_record(Config, u.image).target)) \o "_"
        \o Join(escape_branch(u.branch)) \o "-" \o u.arch \o "." \o u.kind

\* C30 (as stated): the cache artifact of a unit is named by image, arch and kind only,
\* so the artifact written for a unit is the cache file of every unit that differs from
\* it in the branch only.
CacheNameIgnoresBranch ==
    \A n \in DOMAIN out_dir : \A l \in DOMAIN Units :
        SameButBranch(out_dir[n].by, Units[l]) => n = Resolve[cfg].tarball[l]

\* C30 (amended): the cache artifact of a unit is named by the target's last component,
\* the escaped branch, the arch and the kind; units that differ only in branches that
\* escape differently have different cache files, and a unit is skipped as fresh only
\* on an artifact that was written for its own branch.
CacheKeyedByBranch ==
    /\ [](\A n \in DOMAIN out_dir : n = CacheName(out_dir[n].by))
    /\ [](\A k, l \in DOMAIN Units :
            (SameButBranch(Units[k], Units[l])
                /\ escape_branch(Units[k].branch) # escape_branch(Units[l].branch))
            => Resolve[cfg].tarball[k] # Resolve[cfg].tarball[l])
    /\ [][\A i \in Instances : \A k \in DOMAIN ustate[i] \cap DOMAIN ustate'[i] :
            (ustate[i][k] = "pending" /\ ustate'[i][k] = "skipped") =>
                /\ CacheName(Units[k]) \in DOMAIN out_dir
                /\ out_dir[CacheName(Units[k])].by = Units[k]]_vars

\* The artifacts of the two x86_64 units of the same image, one for each branch, side
\* by side in the output directory, the second one built in the run that built the
\* first
CacheKeyWitness ==
    /\ {"docker_p9-x86_64.tar", "docker_Sis-x86_64.tar"} \subseteq DOMAIN out_dir
    /\ out_dir["docker_p9-x86_64.tar"].by.branch = <<"p", "9">>
    /\ out_dir["docker_Sis-x86_64.tar"].by.branch = <<"S", "i", "s">>
    /\ \E i \in Instances :
          /\ runs = 1 /\ DOMAIN ustate[i] = DOMAIN Units
          /\ \A k \in DOMAIN Units : ustate[i][k] = "succeeded"

\* The publish directories of the configuration with their remotes, and the commands
\* configured to run after the sync
PublishPairs == Resolve[cfg].pairs[FALSE]

ConfiguredCommands == IF "after_sync_commands" \in DOMAIN Document
                      THEN Document.after_sync_commands ELSE <<>>

AllSynced ==
    /\ Len(rsync_log) = Len(PublishPairs)
    /\ \A n \in DOMAIN rsync_log :
          rsync_log[n].rc = 0 /\ rsync_log[n].src = PublishPairs[n][1]

\* C31: the after-sync commands of a sync call run only when every publish directory
\* was synced with exit status zero; they run in configured order, each at most once,
\* and all of them exactly once when none fails; each is run as ssh host command when
\* the remote has a colon (host is what precedes the first colon) and as the bare
\* command otherwise; after a command that fails no further command runs and the call
\* ends with an error.
AfterSyncCommands ==
    /\ [](/\ after_log # <<>> => AllSynced
          /\ Len(after_log) <= Len(ConfiguredCommands)
          /\ \A n \in DOMAIN after_log :
                /\ after_log[n].argv =
                      IF \E m \in DOMAIN Document.remote : Document.remote[m] = ":"
                      THEN <<"ssh", "host", ConfiguredCommands[n]>>
                      ELSE <<ConfiguredCommands[n]>>
                /\ n < Len(after_log) => after_log[n].rc = 0
          /\ (AllSynced /\ \A n \in DOMAIN after_log : after_log[n].rc = 0) =>
                Len(after_log) = Len(ConfiguredCommands))
    /\ [][(rsync_log' # rsync_log \/ after_log' # after_log) =>
            \E i \in Instances :
                /\ initialized[i]
                /\ last'[i] = Returned <=>
                      /\ \A n \in DOMAIN rsync_log' : rsync_log'[n].rc = 0
                      /\ \A n \in DOMAIN after_log' : after_log'[n].rc = 0
                /\ last'[i] # Returned => last'[i].type = "Error"]_vars

\* A sync to a remote on a host that ran both commands through ssh, and returned
AfterSyncWitness ==
    \E i \in Instances :
        /\ Document = AfterSyncRemoteConfig
        /\ last[i] = Returned /\ AllSynced
        /\ after_log = <<[argv |-> <<"ssh", "host", "kick">>, rc |-> 0],
                         [argv |-> <<"ssh", "host", "notify">>, rc |-> 0]>>

\* The set-branding calls of the rule written for the m-th image and the b-th branch
SetBrandingCalls(m, b) ==
    SelectSeq(fragment_rules[(m - 1) * Len(Document.branches) + b].recipes,
              LAMBDA x : x.call = "set")

\* C32: in a written fragment the rule of an image and a branch sets the image's
\* branding when the image declares one and that one is not empty, sets nothing when
\* the image declares an empty branding (whatever the branch declares), and otherwise
\* sets the branch's branding when the branch declares a non-empty one and nothing when
\* it does not; no rule sets a branding twice.
BrandingPrecedence ==
    fragment \in Instances =>
        \A m \in DOMAIN Document.images, b \in DOMAIN Document.branches :
            LET image == Document.images[m]
                branch == Document.branches[b]
                calls == SetBrandingCalls(m, b)
            IN  CASE "branding" \in DOMAIN image /\ image.branding # "" ->
                        calls = <<[call |-> "set", variable |-> "BRANDING",
                                   value |-> image.branding]>>
                  [] "branding" \in DOMAIN image /\ image.branding = "" ->
                        calls = <<>>
                  [] "branding" \notin DOMAIN image /\ "branding" \in DOMAIN branch
                        /\ branch.branding # "" ->
                        calls = <<[call |-> "set", variable |-> "BRANDING",
                                   value |-> branch.branding]>>
                  [] OTHER -> calls = <<>>

\* The fragment for the three images on the branded branch p9.1 and on Sis: the
\* image's branding, none for the empty one, the branch's branding, and on Sis the
\* image's branding, none, none
BrandingWitness ==
    /\ Document = BrandingConfig /\ fragment \in Instances
    /\ Len(fragment_rules) = 6
    /\ [n \in 1..6 |-> [x \in DOMAIN SetBrandingCalls((n + 1) \div 2, 2 - (n % 2)) |->
                           SetBrandingCalls((n + 1) \div 2, 2 - (n % 2))[x].value]]
          = << <<"alt-server">>, <<"alt-server">>, <<>>, <<>>, <<"alt-starterkit">>, <<>> >>

\* C33: in a step that invokes the builder for a unit, the unit's cache file is not in
\* the output directory when the builder starts (a stale one was deleted), so after
\* the step the file exists iff this invocation created it, it then carries this
\* invocation's time and unit, and the unit counts as succeeded iff the invocation
\* created the file.
BuilderStartsWithoutArtifact ==
    [][\A i \in Instances :
          (lastBuild' # lastBuild /\ lastBuild'.inst = i) =>
              LET k == lastBuild'.k
                  tarball == CacheName(Units[k])
              IN  /\ tarball \in DOMAIN out_dir =>
                        now - out_dir[tarball].mtime > Config.rebuild_after
                  /\ lastBuild'.evicted <=> tarball \in DOMAIN out_dir
                  /\ tarball \in DOMAIN out_dir' <=> lastBuild'.created
                  /\ lastBuild'.created =>
                        out_dir'[tarball] = [mtime |-> now, by |-> Units[k]]
                  /\ ustate'[i][k] = (IF lastBuild'.created THEN "succeeded" ELSE "failed")]_vars

\* A rebuild of a unit whose stale artifact was deleted, in which the builder left no
\* file: the unit has failed and the old artifact is gone
StaleRebuildFailedWitness ==
    \E i \in Instances :
        /\ lastBuild.inst = i /\ lastBuild.evicted /\ ~lastBuild.created
        /\ lastBuild.k \in DOMAIN ustate[i]
        /\ ustate[i][lastBuild.k] = "failed"
        /\ CacheName(Units[lastBuild.k]) \notin DOMAIN out_dir

\* C34: the file published for a unit, whether the unit was built in this run or
\* skipped on a cache hit, comes from a builder invocation for this same unit.
CacheProvenance ==
    \A k \in DOMAIN Units :
        Resolve[cfg].image_path[FALSE][k] \in DOMAIN images_fs =>
            images_fs[Resolve[cfg].image_path[FALSE][k]].by = Units[k]

\* C35: the publish paths of distinct units of the matrix differ, and no create_images
\* call ends because the destination of a link exists already.
PublishPathsDistinct ==
    /\ \A k, l \in DOMAIN Units :
          k # l => Resolve[cfg].image_path[FALSE][k] # Resolve[cfg].image_path[FALSE][l]
    /\ \A i \in Instances : last[i].type # "FileExistsError"

\* The files below the publish directories of the configuration, in a file system
InPublishDirs(fs) ==
    {path \in DOMAIN fs : \E d \in Range(Resolve[cfg].dirs[FALSE]) : IsPrefix(d, path)}

\* C36: when create_images enters its unit loop the publish directories are empty and
\* the builder has not been invoked in the run; when it returns normally the files in
\* the publish directories are exactly the publish paths of the units of the matrix,
\* each linked to the cache artifact of its unit.
PublishDirsRebuilt ==
    [][\A i \in Instances :
          /\ (pc[i] = "idle" /\ pc'[i] = "loop") =>
                InPublishDirs(images_fs') = {} /\ lastBuild' = NoBuild
          /\ ReturnsNormally(i) =>
                /\ InPublishDirs(images_fs') =
                      {Resolve[cfg].image_path[FALSE][k] : k \in DOMAIN Units}
                /\ \A k \in DOMAIN Units :
                      /\ CacheName(Units[k]) \in DOMAIN out_dir
                      /\ images_fs'[Resolve[cfg].image_path[FALSE][k]].by
                            = out_dir[CacheName(Units[k])].by]_vars

\* The second run has returned normally after a sign call that ran a command with
\* success: the publish directories hold the images of the units only
PublishDirsWitness ==
    \E i \in Instances :
        /\ runs = 2 /\ pc[i] = "idle" /\ last[i] = Returned
        /\ \E n \in DOMAIN sign_log : sign_log[n].rc = 0
        /\ Units # <<>>
        /\ InPublishDirs(images_fs) = {Resolve[cfg].image_path[FALSE][k] : k \in DOMAIN Units}
        /\ \A k \in DOMAIN Units :
              images_fs[Resolve[cfg].image_path[FALSE][k]].by = Units[k]

\* Steps in which object i is constructed and in which it is destroyed
Constructed(i) == life[i] = "unborn" /\ life'[i] = "live"

Destroyed(i) == life[i] = "live" /\ life'[i] = "dead"

Aborts(i) ==
    /\ pc[i] = "loop" /\ pc'[i] = "idle"
    /\ \/ last'[i].type \in {"BuildError", "MultipleBuildErrors"}
       \/ last'[i].type = "Error" /\ last'[i].msg = "Test failed"

\* C38: a step that ends create_images on a build failure or a test failure leaves in
\* the output directory the cache artifact of every unit that succeeded or was skipped
\* in the run; between runs no artifact leaves the output directory; and a unit whose
\* artifact is in the output directory and not older than rebuild_after when the unit
\* is processed is skipped without the builder being invoked, while the builder is
\* invoked for every other unit processed.
AbortKeepsCache ==
    [][\A i \in Instances :
          /\ Aborts(i) =>
                \A k \in DOMAIN ustate'[i] :
                    ustate'[i][k] \in {"succeeded", "skipped"} =>
                        /\ CacheName(Units[k]) \in DOMAIN out_dir'
                        /\ out_dir'[CacheName(Units[k])].by = Units[k]
          /\ (\A j \in Instances : pc[j] = "idle") => DOMAIN out_dir \subseteq DOMAIN out_dir'
          /\ \A k \in DOMAIN ustate[i] \cap DOMAIN ustate'[i] :
                (runs' = runs /\ ustate[i][k] = "pending" /\ ustate'[i][k] # "pending") =>
                    IF /\ CacheName(Units[k]) \in DOMAIN out_dir
                       /\ now - out_dir[CacheName(Units[k])].mtime <= RebuildAfter
                    THEN /\ ustate'[i][k] = "skipped"
                         /\ UNCHANGED <<lastBuild, out_dir>>
                    ELSE /\ lastBuild' # lastBuild
                         /\ lastBuild'.inst = i /\ lastBuild'.k = k]_vars

\* The run after one that ended on the failure of the second unit, with no time
\* passed: the first unit is skipped on the artifact the aborted run left, the builder
\* is invoked for the second
AbortKeepsCacheWitness ==
    \E i \in Instances :
        /\ ~Config.try_build_all
        /\ runs = 2 /\ now = 0
        /\ Len(ustate[i]) >= 2 /\ ustate[i][1] = "skipped" /\ ustate[i][2] = "succeeded"
        /\ lastBuild = [inst |-> i, k |-> 2, evicted |-> FALSE, rc |-> 0, created |-> TRUE]

====
